---- MODULE Spec2Model ----
(***************************************************************************)
(* State-machine model of the Express/MongoDB backend of the video-sharing *)
(* application: the users, channels, videos and comments collections, the  *)
(* auth middleware and the channel, video and comment route handlers; and  *)
(* of two pieces of the React frontend: AuthProvider and VideoPlayer.      *)
(*                                                                         *)
(* Documents are records, collections are functions from _id to document.  *)
(* ObjectIds are drawn from counters and never reused.  A handler is       *)
(* modelled twice from the same operators: as one atomic action (requests  *)
(* handled one at a time) and, for the handlers whose awaits matter, as    *)
(* one action per database round trip (requests interleaving at awaits).   *)
(***************************************************************************)
EXTENDS Integers, Sequences, FiniteSets, TLC

VARIABLES
    users,      \* users collection: user _id -> document
    channels,   \* channels collection: channel _id -> document
    videos,     \* videos collection: video _id -> document
    comments,   \* comments collection: comment _id -> document
    nextId,     \* next fresh _id per collection
    req,        \* the request handled last
    res,        \* the response sent to it
    inflight,   \* requests between two awaits: slot -> handler-local state
    authCtx,    \* browser: state of the AuthProvider and its requests in flight
    player      \* browser: state of the VideoPlayer page and its view requests

vars == <<users, channels, videos, comments, nextId, req, res, inflight, authCtx, player>>
store == <<users, channels, videos, comments>>
frontend == <<authCtx, player>>

----------------------------------------------------------------------------
(* Bounds of the model *)

MaxChannels == 2        \* channel documents ever created
MaxVideos == 2          \* video documents ever created
MaxComments == 2        \* comment documents ever created
MaxTime == 2            \* readings of Date.now(), in milliseconds
MaxVersion == 4         \* cap on a video's __v (array modifications saved)
MaxViews == 3           \* cap on a video's views
MaxUsers == 3           \* user documents in the collection

UserIds == {"u1", "u2"}         \* users present in the database
GhostId == "u3"                 \* a user id that is not (any more) in the database
Names == {"n1", "n2"}           \* valid channel names
Descs == {"d1"}                 \* valid descriptions
Titles == {"t1", "t2"}          \* valid video titles
Texts == {"x1", "x2"}           \* valid comment texts
Actions == {"like", "dislike", "remove"}   \* req.body.action values
None == "none"                  \* null / undefined
Usernames == {"alice", "carol", "al", "c d"}    \* req.body.username values
Emails == {"alice@x.io", "Alice@X.io", "carol@x.io", "carol@x.info", "nomail"}
Passwords == {"secret1", "secret2", "short", ""}  \* req.body.password values

ChannelIds == 1..MaxChannels
VideoIds == 1..MaxVideos
CommentIds == 1..MaxComments
Times == 1..MaxTime
QueryNumbers == {"1", "2", "3"} \* page and limit as they arrive in req.query
Slots == {1, 2}                 \* two requests can be between awaits at once

----------------------------------------------------------------------------
(* Array helpers, as JavaScript / MongoDB compute them *)

\* Array.prototype.indexOf, 1-based; 0 where JavaScript gives -1
RECURSIVE IndexFrom(_, _, _)
IndexFrom(s, x, i) ==
    IF i > Len(s) THEN 0
    ELSE IF s[i] = x THEN i
    ELSE IndexFrom(s, x, i + 1)

IndexOf(s, x) == IndexFrom(s, x, 1)

\* Array.prototype.splice(i, 1)
RemoveAt(s, i) == SubSeq(s, 1, i - 1) \o SubSeq(s, i + 1, Len(s))

\* MongoDB $pull: removes every element equal to x
Pull(s, x) == SelectSeq(s, LAMBDA e : e # x)

\* number of occurrences of x in s
Count(s, x) == Cardinality({i \in 1..Len(s) : s[i] = x})

Contains(s, x) == \E i \in 1..Len(s) : s[i] = x

Max(a, b) == IF a >= b THEN a ELSE b

Min(a, b) == IF a <= b THEN a ELSE b

\* Math.ceil(a / b) for a >= 0, b >= 1
Ceil(a, b) == (a + b - 1) \div b

\* the number a query string coerces to, and parseInt of it
ToNumber(str) == IF str = "1" THEN 1 ELSE IF str = "2" THEN 2 ELSE 3

\* the orders in which sort({key: -1}) can return the documents ids: key
\* non-increasing, documents with equal keys in any order
SortedDesc(ids, key) ==
    {order \in [1..Cardinality(ids) -> ids] :
        /\ \A i, j \in 1..Cardinality(ids) : i # j => order[i] # order[j]
        /\ \A i, j \in 1..Cardinality(ids) : i < j => key[order[i]] >= key[order[j]]}

\* skip(skip).limit(limit) on an ordered result
Paged(order, skip, limit) == SubSeq(order, skip + 1, Min(skip + limit, Len(order)))

\* a collection with one document added or replaced
Put(coll, id, doc) == [k \in DOMAIN coll \cup {id} |-> IF k = id THEN doc ELSE coll[k]]

\* a collection with one document deleted
Drop(coll, id) == [k \in DOMAIN coll \ {id} |-> coll[k]]

----------------------------------------------------------------------------
(* Auth middleware *)

\* bearer tokens: absent, or a JWT naming a user, signed with the secret or
\* not, expired or not
NoToken == [present |-> FALSE, userId |-> None, signed |-> FALSE, expired |-> FALSE]
Jwt(u, s, e) == [present |-> TRUE, userId |-> u, signed |-> s, expired |-> e]
GoodToken(u) == Jwt(u, TRUE, FALSE)
AllTokens == {NoToken} \cup {Jwt(u, s, e) : u \in UserIds \cup {GhostId}, s \in BOOLEAN, e \in BOOLEAN}
CallerTokens == {NoToken} \cup {GoodToken(u) : u \in UserIds}

\* jwt.verify: throws unless the signature verifies and the token is not expired
jwtVerify(token) == token.signed /\ ~token.expired

\* mutant: the password is not excluded
SelectUser_All(doc) == doc

\* .select('-password')
SelectUser(doc) == [f \in DOMAIN doc \ {"password"} |-> doc[f]]

\* mutant: the middleware does not check that the user still exists
auth_NoUserCheck(token, db) ==
    IF ~token.present THEN [status |-> 401, user |-> None, next |-> FALSE]
    ELSE IF ~jwtVerify(token) THEN [status |-> 401, user |-> None, next |-> FALSE]
    ELSE [status |-> 0, user |-> token.userId, next |-> TRUE]

\* required auth: 401 or next() with req.user; `user` is req.user._id and
\* `doc` the document attached as req.user
auth(token, db) ==
    IF ~token.present THEN [status |-> 401, user |-> None, next |-> FALSE, doc |-> None]
    ELSE IF ~jwtVerify(token) THEN [status |-> 401, user |-> None, next |-> FALSE, doc |-> None]
    ELSE IF token.userId \notin DOMAIN db
    THEN [status |-> 401, user |-> None, next |-> FALSE, doc |-> None]
    ELSE [status |-> 0, user |-> token.userId, next |-> TRUE,
          doc |-> SelectUser(db[token.userId])]

\* mutant: optional auth answers 401 where required auth does
optionalAuth_Rejects(token, db) ==
    IF ~token.present THEN [status |-> 401, user |-> None, next |-> FALSE]
    ELSE IF ~jwtVerify(token) THEN [status |-> 401, user |-> None, next |-> FALSE]
    ELSE IF token.userId \notin DOMAIN db THEN [status |-> 401, user |-> None, next |-> FALSE]
    ELSE [status |-> 0, user |-> token.userId, next |-> TRUE]

\* mutant: optional auth binds the decoded user id without looking the user up
optionalAuth_GhostBound(token, db) ==
    IF token.present /\ jwtVerify(token)
    THEN [status |-> 0, user |-> token.userId, next |-> TRUE]
    ELSE [status |-> 0, user |-> None, next |-> TRUE]

\* optional auth: next() in every case; req.user is the user found for a
\* verified token, null when findById finds none, unset otherwise
optionalAuth(token, db) ==
    IF ~token.present THEN [status |-> 0, user |-> None, next |-> TRUE, doc |-> None]
    ELSE IF ~jwtVerify(token) THEN [status |-> 0, user |-> None, next |-> TRUE, doc |-> None]
    ELSE IF token.userId \notin DOMAIN db
    THEN [status |-> 0, user |-> None, next |-> TRUE, doc |-> None]
    ELSE [status |-> 0, user |-> token.userId, next |-> TRUE,
          doc |-> SelectUser(db[token.userId])]

----------------------------------------------------------------------------
(* Requests and responses *)

Request(op, token, id, name, text) ==
    [op |-> op, token |-> token, id |-> id, name |-> name, text |-> text]

\* status; req.user as the handler saw it (None when the handler never ran);
\* _id of the document created (0 when none)
Response(status, user, created) ==
    [status |-> status, user |-> user, created |-> created]

NoRequest == Request("none", NoToken, 0, None, None)
NoResponse == Response(0, None, 0)

\* res.status(...).json(...): the response to request r
Reply(r, status, user, created) ==
    /\ req' = r
    /\ res' = Response(status, user, created)

\* a response of the auth routes: message, token issued and the user
\* documents serialized into the body
AuthResponse(status, message, token, body) ==
    [status |-> status, user |-> None, created |-> 0,
     message |-> message, token |-> token, body |-> body]

\* a request of the auth routes: the body's username, email and password
AuthRequest(op, token, username, email, password) ==
    [op |-> op, token |-> token, id |-> 0, name |-> username, text |-> email,
     password |-> password]

ReplyAuth(r, status, message, token, body) ==
    /\ req' = r
    /\ res' = AuthResponse(status, message, token, body)

----------------------------------------------------------------------------
(* User model and auth routes *)

MinUsernameLen == 3
MaxUsernameLen == 20
MinPasswordLen == 6

\* /^[a-zA-Z0-9_]+$/ on the usernames of the model
MatchesWord(name) == name \in {"alice", "bobby", "carol", "al"}

\* express-validator isEmail on the emails of the model
isEmail(email) == email \in {"alice@x.io", "Alice@X.io", "bobby@x.io", "carol@x.io", "carol@x.info"}

\* express-validator normalizeEmail: lower case
normalizeEmail(email) == IF email = "Alice@X.io" THEN "alice@x.io" ELSE email

\* the schema's match pattern: a top-level domain of 2 or 3 characters
MatchesSchema(email) == email \in {"alice@x.io", "bobby@x.io", "carol@x.io"}

\* validateRegistration
validateRegistration(username, email, password) ==
    /\ Len(username) >= MinUsernameLen /\ Len(username) <= MaxUsernameLen
    /\ MatchesWord(username)
    /\ isEmail(email)
    /\ Len(password) >= MinPasswordLen

\* validateLogin
validateLogin(email, password) == isEmail(email) /\ password # ""

\* bcrypt.hash in the pre-save hook
Hash(password) == <<"bcrypt", password>>

\* userSchema.methods.comparePassword: bcrypt.compare
comparePassword(candidate, stored) == stored = Hash(candidate)

DefaultAvatar == "default.png"

\* new User({username, email, password}) after the pre-save hook
NewUser(username, email, password) ==
    [username |-> username, email |-> email, password |-> Hash(password),
     avatar |-> DefaultAvatar, channels |-> <<>>]

\* the users that signed up before the model starts
SeedUser(u) ==
    IF u = "u1" THEN NewUser("alice", "alice@x.io", "secret1")
    ELSE NewUser("bobby", "bobby@x.io", "secret2")

\* a fresh user _id: u1 and u2 are seeded, u3 was deleted
NewUserId(db) == "u" \o ToString(Cardinality(DOMAIN db) + 2)

\* mutant: the existence query looks at the email only
UserFindOr_EmailOnly(db, email, username) ==
    {u \in DOMAIN db : db[u].email = email}

\* User.findOne({$or: [{email}, {username}]}): the users it can return
UserFindOr(db, email, username) ==
    {u \in DOMAIN db : db[u].email = email \/ db[u].username = username}

\* User.findOne({email})
UserFindEmail(db, email) == {u \in DOMAIN db : db[u].email = email}

\* the unique indexes on username and email accept the insert
UniqueOk(db, doc) ==
    \A u \in DOMAIN db : db[u].username # doc.username /\ db[u].email # doc.email

\* populate(path, 'username avatar')
Populate(db, id) ==
    IF id \in DOMAIN db
    THEN {[_id |-> id, username |-> db[id].username, avatar |-> db[id].avatar]}
    ELSE {}

\* the user object of the login response
LoginUser(db, id) ==
    [userId |-> id, username |-> db[id].username, email |-> db[id].email,
     avatar |-> db[id].avatar, channels |-> db[id].channels]

\* mutant: an unknown email is answered differently from a wrong password
NoSuchUser_Reveals == AuthResponse(404, "User not found", None, {})

\* the response to a login with an email no user has
NoSuchUser == AuthResponse(400, "Invalid email or password", None, {})

\* the response to a login with a password that does not compare equal
WrongPassword == AuthResponse(400, "Invalid email or password", None, {})

\* POST /api/auth/signup
Signup(username, email, password) ==
    LET r == AuthRequest("signup", NoToken, username, email, password)
        em == normalizeEmail(email)
        found == UserFindOr(users, em, username)
        doc == NewUser(username, em, password)
    IN  /\ IF ~validateRegistration(username, email, password)
           THEN ReplyAuth(r, 400, "Validation failed", None, {}) /\ UNCHANGED users
           ELSE IF found # {}
           THEN /\ \E existingUser \in found :
                       IF users[existingUser].email = em
                       THEN ReplyAuth(r, 400, "Email already registered", None, {})
                       ELSE ReplyAuth(r, 400, "Username already taken", None, {})
                /\ UNCHANGED users
           ELSE IF ~MatchesSchema(em) \/ ~UniqueOk(users, doc)
           THEN ReplyAuth(r, 500, "Server error during registration", None, {})
                /\ UNCHANGED users
           ELSE /\ Cardinality(DOMAIN users) < MaxUsers
                /\ users' = Put(users, NewUserId(users), doc)
                /\ ReplyAuth(r, 201, "User registered successfully. Please login.", None, {})
        /\ UNCHANGED <<channels, videos, comments, nextId, inflight, frontend>>

\* POST /api/auth/login
Login(email, password) ==
    LET r == AuthRequest("login", NoToken, None, email, password)
        em == normalizeEmail(email)
        found == UserFindEmail(users, em)
    IN  /\ IF ~validateLogin(email, password)
           THEN ReplyAuth(r, 400, "Validation failed", None, {})
           ELSE IF found = {}
           THEN req' = r /\ res' = NoSuchUser
           ELSE \E user \in found :
                    IF ~comparePassword(password, users[user].password)
                    THEN req' = r /\ res' = WrongPassword
                    ELSE ReplyAuth(r, 200, "Login successful", GoodToken(user),
                                   {LoginUser(users, user)})
        /\ UNCHANGED <<users, channels, videos, comments, nextId, inflight, frontend>>

\* GET /api/auth/me
Me(token) ==
    LET r == AuthRequest("me", token, None, None, None)
    IN  /\ IF ~token.present
           THEN ReplyAuth(r, 401, "No authentication token provided", None, {})
           ELSE IF ~jwtVerify(token)
           THEN ReplyAuth(r, 401, "Invalid or expired authentication token", None, {})
           ELSE IF token.userId \notin DOMAIN users
           THEN ReplyAuth(r, 404, "User not found", None, {})
           ELSE ReplyAuth(r, 200, None, None, {SelectUser(users[token.userId])})
        /\ UNCHANGED <<users, channels, videos, comments, nextId, inflight, frontend>>

----------------------------------------------------------------------------
(* Channel routes *)

MaxNameLen == 50
MaxDescLen == 500

\* validateChannel: channelName 1..50 characters, description 1..500
validateChannel(name, desc) ==
    /\ Len(name) >= 1 /\ Len(name) <= MaxNameLen
    /\ Len(desc) >= 1 /\ Len(desc) <= MaxDescLen

\* new Channel({channelName, owner, description, ...}): videos starts empty
NewChannel(name, owner, desc) ==
    [channelName |-> name, owner |-> owner, description |-> desc, videos |-> <<>>]

\* mutant: the uniqueness query forgets the owner
ChannelFindOne_AnyOwner(chs, owner, name, except) ==
    \E c \in DOMAIN chs \ {except} : chs[c].channelName = name

\* Channel.findOne({owner, channelName, _id: {$ne: except}}): does one exist
ChannelFindOne(chs, owner, name, except) ==
    \E c \in DOMAIN chs \ {except} :
        chs[c].owner = owner /\ chs[c].channelName = name

\* mutant: the owner comparison always succeeds
IsChannelOwner_Any(ch, user) == TRUE

\* channel.owner.toString() !== req.user._id.toString() is false
IsChannelOwner(ch, user) == ch.owner = user

\* User.findByIdAndUpdate(owner, {$push: {channels: id}})
PushChannel(db, owner, id) ==
    IF owner \in DOMAIN db
    THEN [db EXCEPT ![owner].channels = Append(@, id)]
    ELSE db

\* User.findByIdAndUpdate(owner, {$pull: {channels: id}})
PullChannel(db, owner, id) ==
    IF owner \in DOMAIN db
    THEN [db EXCEPT ![owner].channels = Pull(@, id)]
    ELSE db

\* mutant: the update also writes an owner taken from the body
SetChannel_WithOwner(chs, id, name, desc) ==
    IF id \in DOMAIN chs
    THEN [chs EXCEPT ![id].channelName = name, ![id].description = desc, ![id].owner = "u2"]
    ELSE chs

\* Channel.findByIdAndUpdate(id, {channelName, description, ...})
SetChannel(chs, id, name, desc) ==
    IF id \in DOMAIN chs
    THEN [chs EXCEPT ![id].channelName = name, ![id].description = desc]
    ELSE chs

\* POST /api/channels/create, handled atomically
ChannelCreate(token, name, desc) ==
    LET a == auth(token, users)
        r == Request("channelCreate", token, 0, name, desc)
        id == nextId.channel
    IN  /\ IF ~a.next
           THEN Reply(r, 401, None, 0) /\ UNCHANGED <<users, channels, nextId>>
           ELSE IF ~validateChannel(name, desc)
           THEN Reply(r, 400, a.user, 0) /\ UNCHANGED <<users, channels, nextId>>
           ELSE IF ChannelFindOne(channels, a.user, name, 0)
           THEN Reply(r, 400, a.user, 0) /\ UNCHANGED <<users, channels, nextId>>
           ELSE /\ id <= MaxChannels
                /\ channels' = Put(channels, id, NewChannel(name, a.user, desc))
                /\ users' = PushChannel(users, a.user, id)
                /\ nextId' = [nextId EXCEPT !.channel = id + 1]
                /\ Reply(r, 201, a.user, id)
        /\ UNCHANGED <<videos, comments, inflight, frontend>>

\* PUT /api/channels/:id, handled atomically
ChannelUpdate(token, id, name, desc) ==
    LET a == auth(token, users)
        r == Request("channelUpdate", token, id, name, desc)
    IN  /\ IF ~a.next
           THEN Reply(r, 401, None, 0) /\ UNCHANGED channels
           ELSE IF ~validateChannel(name, desc)
           THEN Reply(r, 400, a.user, 0) /\ UNCHANGED channels
           ELSE IF id \notin DOMAIN channels
           THEN Reply(r, 404, a.user, 0) /\ UNCHANGED channels
           ELSE IF ~IsChannelOwner(channels[id], a.user)
           THEN Reply(r, 403, a.user, 0) /\ UNCHANGED channels
           ELSE IF /\ name # channels[id].channelName
                   /\ ChannelFindOne(channels, a.user, name, id)
           THEN Reply(r, 400, a.user, 0) /\ UNCHANGED channels
           ELSE /\ channels' = SetChannel(channels, id, name, desc)
                /\ Reply(r, 200, a.user, 0)
        /\ UNCHANGED <<users, videos, comments, nextId, inflight, frontend>>

\* DELETE /api/channels/:id, handled atomically
ChannelDelete(token, id) ==
    LET a == auth(token, users)
        r == Request("channelDelete", token, id, None, None)
    IN  /\ IF ~a.next
           THEN Reply(r, 401, None, 0) /\ UNCHANGED <<users, channels>>
           ELSE IF id \notin DOMAIN channels
           THEN Reply(r, 404, a.user, 0) /\ UNCHANGED <<users, channels>>
           ELSE IF ~IsChannelOwner(channels[id], a.user)
           THEN Reply(r, 403, a.user, 0) /\ UNCHANGED <<users, channels>>
           ELSE /\ users' = PullChannel(users, a.user, id)
                /\ channels' = Drop(channels, id)
                /\ Reply(r, 200, a.user, 0)
        /\ UNCHANGED <<videos, comments, nextId, inflight, frontend>>

----------------------------------------------------------------------------
(* Channel routes, one action per database round trip.  A request occupies
   a slot of `inflight` from its first await to its response; the handler's
   local variables live in the slot.  The responses of interleaved requests
   are not recorded: req and res belong to the atomic actions. *)

IdleSlot ==
    [pc |-> "idle", op |-> "none", token |-> NoToken, user |-> None,
     id |-> 0, name |-> None, text |-> None, doc |-> None]

Slot(pc, op, token, user, id, name, text, doc) ==
    [pc |-> pc, op |-> op, token |-> token, user |-> user,
     id |-> id, name |-> name, text |-> text, doc |-> doc]

\* the response is sent and the slot is free again
Finish(s) ==
    /\ inflight' = [inflight EXCEPT ![s] = IdleSlot]
    /\ UNCHANGED <<req, res>>

\* the handler returns before its first write: nothing changes
Refuse == UNCHANGED <<inflight, req, res>>

\* POST /api/channels/create up to the answer of Channel.findOne
ChannelCreateCheck(s, token, name, desc) ==
    LET a == auth(token, users)
    IN  /\ inflight[s].pc = "idle"
        /\ IF ~a.next
           THEN Refuse
           ELSE IF ~validateChannel(name, desc)
           THEN Refuse
           ELSE IF ChannelFindOne(channels, a.user, name, 0)
           THEN Refuse
           ELSE /\ inflight' = [inflight EXCEPT ![s] =
                       Slot("save", "channelCreate", token, a.user, 0, name, desc, None)]
                /\ UNCHANGED <<req, res>>
        /\ UNCHANGED <<users, channels, videos, comments, nextId, frontend>>

\* await channel.save()
ChannelCreateSave(s) ==
    LET sl == inflight[s]
        id == nextId.channel
    IN  /\ sl.pc = "save" /\ sl.op = "channelCreate"
        /\ id <= MaxChannels
        /\ channels' = Put(channels, id, NewChannel(sl.name, sl.user, sl.text))
        /\ nextId' = [nextId EXCEPT !.channel = id + 1]
        /\ inflight' = [inflight EXCEPT ![s].pc = "push", ![s].id = id]
        /\ UNCHANGED <<users, videos, comments, req, res, frontend>>

\* await User.findByIdAndUpdate(owner, {$push}) and the 201 response
ChannelCreatePush(s) ==
    LET sl == inflight[s]
    IN  /\ sl.pc = "push" /\ sl.op = "channelCreate"
        /\ users' = PushChannel(users, sl.user, sl.id)
        /\ Finish(s)
        /\ UNCHANGED <<channels, videos, comments, nextId, frontend>>

\* PUT /api/channels/:id up to the answer of Channel.findById
ChannelUpdateFind(s, token, id, name, desc) ==
    LET a == auth(token, users)
    IN  /\ inflight[s].pc = "idle"
        /\ IF ~a.next
           THEN Refuse
           ELSE IF ~validateChannel(name, desc)
           THEN Refuse
           ELSE IF id \notin DOMAIN channels
           THEN Refuse
           ELSE IF ~IsChannelOwner(channels[id], a.user)
           THEN Refuse
           ELSE /\ inflight' = [inflight EXCEPT ![s] =
                       Slot(IF name # channels[id].channelName THEN "check" ELSE "write",
                            "channelUpdate", token, a.user, id, name, desc, None)]
                /\ UNCHANGED <<req, res>>
        /\ UNCHANGED <<users, channels, videos, comments, nextId, frontend>>

\* await Channel.findOne({owner, channelName, _id: {$ne: id}})
ChannelUpdateCheck(s) ==
    LET sl == inflight[s]
    IN  /\ sl.pc = "check" /\ sl.op = "channelUpdate"
        /\ IF ChannelFindOne(channels, sl.user, sl.name, sl.id)
           THEN Finish(s)
           ELSE /\ inflight' = [inflight EXCEPT ![s].pc = "write"]
                /\ UNCHANGED <<req, res>>
        /\ UNCHANGED <<users, channels, videos, comments, nextId, frontend>>

\* await Channel.findByIdAndUpdate(id, ...) and the 200 response
ChannelUpdateWrite(s) ==
    LET sl == inflight[s]
    IN  /\ sl.pc = "write" /\ sl.op = "channelUpdate"
        /\ channels' = SetChannel(channels, sl.id, sl.name, sl.text)
        /\ Finish(s)
        /\ UNCHANGED <<users, videos, comments, nextId, frontend>>

----------------------------------------------------------------------------
(* Video routes *)

MaxTitleLen == 100

\* the category enum of the validator and of the schema
Categories ==
    {"Gaming", "Education", "Entertainment", "Technology", "Music", "Sports",
     "News", "Lifestyle", "Comedy", "Travel", "Food", "Fitness"}

\* mutant: the validation result is not looked at
validateVideoUpdate_Pass(title) == TRUE

\* validateVideoUpdate: title 1..100 characters
validateVideoUpdate(title) == Len(title) >= 1 /\ Len(title) <= MaxTitleLen

\* validateVideo: title 1..100 characters, category one of the enum
validateVideo(title, category) ==
    /\ Len(title) >= 1 /\ Len(title) <= MaxTitleLen
    /\ category \in Categories

\* Date.now() can read `now`: the clock is not behind any stored document
ClockReads(now) ==
    /\ \A c \in DOMAIN comments : comments[c].timestamp <= now
    /\ \A v \in DOMAIN videos : videos[v].uploadDate <= now

\* Math.floor(Math.random() * 14) and some of Math.floor(Math.random() * 60)
MinuteDraws == 0..13
SecondDraws == {0, 9, 10, 59}

\* String.prototype.padStart(len, ch)
RECURSIVE padStart(_, _, _)
padStart(str, len, ch) == IF Len(str) >= len THEN str ELSE padStart(ch \o str, len, ch)

\* generateDuration() when the two random draws floor to m and s
generateDuration(m, s) ==
    LET minutes == m + 2
        seconds == s
    IN  padStart(ToString(minutes), 2, "0") \o ":" \o padStart(ToString(seconds), 2, "0")

\* the duration of the seeded videos
SeedDuration == generateDuration(0, 10)

\* new Video({title, category, channelId, uploader, duration, ...}):
\* uploadDate defaults to Date.now, schema defaults for the rest
NewVideo(title, category, channelId, uploader, now, duration) ==
    [title |-> title, category |-> category, channelId |-> channelId,
     uploader |-> uploader, uploadDate |-> now, duration |-> duration,
     views |-> 0, likes |-> 0, dislikes |-> 0,
     userLikes |-> <<>>, userDislikes |-> <<>>, v |-> 0]

\* video.uploader.toString() !== req.user._id.toString() is false
IsUploader(video, user) == video.uploader = user

\* Channel.findByIdAndUpdate(channelId, {$push: {videos: id}})
PushVideo(chs, channelId, id) ==
    IF channelId \in DOMAIN chs
    THEN [chs EXCEPT ![channelId].videos = Append(@, id)]
    ELSE chs

\* mutant: the $pull on the channel is left out
PullVideo_Noop(chs, channelId, id) == chs

\* Channel.findByIdAndUpdate(channelId, {$pull: {videos: id}})
PullVideo(chs, channelId, id) ==
    IF channelId \in DOMAIN chs
    THEN [chs EXCEPT ![channelId].videos = Pull(@, id)]
    ELSE chs

\* mutant: the update resets the view counter
SetVideo_ResetViews(vs, id, title, category) ==
    IF id \in DOMAIN vs
    THEN [vs EXCEPT ![id].title = title, ![id].category = category, ![id].views = 0]
    ELSE vs

\* Video.findByIdAndUpdate(id, {title, description, category, tags})
SetVideo(vs, id, title, category) ==
    IF id \in DOMAIN vs
    THEN [vs EXCEPT ![id].title = title, ![id].category = category]
    ELSE vs

\* mutant: a like leaves the caller's dislike in place
LikeDoc_KeepDislike(doc, userId, action) ==
    LET userLikeIndex == IndexOf(doc.userLikes, userId)
    IN  IF action = "remove"
        THEN IF userLikeIndex > 0
             THEN [doc EXCEPT !.userLikes = RemoveAt(@, userLikeIndex),
                              !.likes = Max(0, @ - 1)]
             ELSE doc
        ELSE IF userLikeIndex = 0
             THEN [doc EXCEPT !.userLikes = Append(@, userId), !.likes = @ + 1]
             ELSE doc

\* mutant: a like is counted without looking at userLikes first
LikeDoc_NoCheck(doc, userId, action) ==
    LET userLikeIndex == IndexOf(doc.userLikes, userId)
        userDislikeIndex == IndexOf(doc.userDislikes, userId)
        added == [doc EXCEPT !.userLikes = Append(@, userId), !.likes = @ + 1]
    IN  IF action = "remove"
        THEN IF userLikeIndex > 0
             THEN [doc EXCEPT !.userLikes = RemoveAt(@, userLikeIndex),
                              !.likes = Max(0, @ - 1)]
             ELSE doc
        ELSE IF userDislikeIndex > 0
             THEN [added EXCEPT !.userDislikes = RemoveAt(@, userDislikeIndex),
                                !.dislikes = Max(0, @ - 1)]
             ELSE added

\* mutant: the decrements are not clamped at zero
LikeDoc_NoClamp(doc, userId, action) ==
    LET userLikeIndex == IndexOf(doc.userLikes, userId)
        userDislikeIndex == IndexOf(doc.userDislikes, userId)
        added == IF userLikeIndex = 0
                 THEN [doc EXCEPT !.userLikes = Append(@, userId), !.likes = @ + 1]
                 ELSE doc
    IN  IF action = "remove"
        THEN IF userLikeIndex > 0
             THEN [doc EXCEPT !.userLikes = RemoveAt(@, userLikeIndex),
                              !.likes = @ - 1]
             ELSE doc
        ELSE IF userDislikeIndex > 0
             THEN [added EXCEPT !.userDislikes = RemoveAt(@, userDislikeIndex),
                                !.dislikes = @ - 1]
             ELSE added

\* mutant: a like empties userDislikes instead of removing the caller's entry
LikeDoc_ClearsDislikes(doc, userId, action) ==
    LET userLikeIndex == IndexOf(doc.userLikes, userId)
        userDislikeIndex == IndexOf(doc.userDislikes, userId)
        added == IF userLikeIndex = 0
                 THEN [doc EXCEPT !.userLikes = Append(@, userId), !.likes = @ + 1]
                 ELSE doc
    IN  IF action = "remove"
        THEN IF userLikeIndex > 0
             THEN [doc EXCEPT !.userLikes = RemoveAt(@, userLikeIndex),
                              !.likes = Max(0, @ - 1)]
             ELSE doc
        ELSE IF userDislikeIndex > 0
             THEN [added EXCEPT !.userDislikes = <<>>, !.dislikes = 0]
             ELSE added

\* the body of POST /:id/like between findById and save, on the loaded document
LikeDoc(doc, userId, action) ==
    LET userLikeIndex == IndexOf(doc.userLikes, userId)
        userDislikeIndex == IndexOf(doc.userDislikes, userId)
        added == IF userLikeIndex = 0
                 THEN [doc EXCEPT !.userLikes = Append(@, userId), !.likes = @ + 1]
                 ELSE doc
    IN  IF action = "remove"
        THEN IF userLikeIndex > 0
             THEN [doc EXCEPT !.userLikes = RemoveAt(@, userLikeIndex),
                              !.likes = Max(0, @ - 1)]
             ELSE doc
        ELSE IF userDislikeIndex > 0
             THEN [added EXCEPT !.userDislikes = RemoveAt(@, userDislikeIndex),
                                !.dislikes = Max(0, @ - 1)]
             ELSE added

\* mutant: a dislike that overrides a like leaves the likes counter alone
DislikeDoc_NoDecrement(doc, userId, action) ==
    LET userDislikeIndex == IndexOf(doc.userDislikes, userId)
        userLikeIndex == IndexOf(doc.userLikes, userId)
        added == IF userDislikeIndex = 0
                 THEN [doc EXCEPT !.userDislikes = Append(@, userId), !.dislikes = @ + 1]
                 ELSE doc
    IN  IF action = "remove"
        THEN IF userDislikeIndex > 0
             THEN [doc EXCEPT !.userDislikes = RemoveAt(@, userDislikeIndex),
                              !.dislikes = Max(0, @ - 1)]
             ELSE doc
        ELSE IF userLikeIndex > 0
             THEN [added EXCEPT !.userLikes = RemoveAt(@, userLikeIndex)]
             ELSE added

\* the body of POST /:id/dislike between findById and save
DislikeDoc(doc, userId, action) ==
    LET userDislikeIndex == IndexOf(doc.userDislikes, userId)
        userLikeIndex == IndexOf(doc.userLikes, userId)
        added == IF userDislikeIndex = 0
                 THEN [doc EXCEPT !.userDislikes = Append(@, userId), !.dislikes = @ + 1]
                 ELSE doc
    IN  IF action = "remove"
        THEN IF userDislikeIndex > 0
             THEN [doc EXCEPT !.userDislikes = RemoveAt(@, userDislikeIndex),
                              !.dislikes = Max(0, @ - 1)]
             ELSE doc
        ELSE IF userLikeIndex > 0
             THEN [added EXCEPT !.userLikes = RemoveAt(@, userLikeIndex),
                                !.likes = Max(0, @ - 1)]
             ELSE added

\* video.save() of a document loaded as `old` and changed in memory to `new`.
\* Mongoose sends only the modified paths: $set for a changed number, $push
\* for an array that was pushed to, $set of the whole array for one that was
\* spliced; an array $set carries the loaded __v in the filter (a mismatch is
\* a VersionError), and every array change increments __v.
Spliced(old, new) ==
    \/ Len(new.userLikes) < Len(old.userLikes)
    \/ Len(new.userDislikes) < Len(old.userDislikes)

Pushed(old, new) ==
    \/ Len(new.userLikes) > Len(old.userLikes)
    \/ Len(new.userDislikes) > Len(old.userDislikes)

SaveArray(cur, old, new) ==
    IF Len(new) > Len(old) THEN cur \o SubSeq(new, Len(old) + 1, Len(new))
    ELSE IF Len(new) < Len(old) THEN new
    ELSE cur

\* mutant: a changed number is sent as an atomic $inc of the difference
SaveNumber_Inc(cur, old, new) == cur + (new - old)

SaveNumber(cur, old, new) == IF new # old THEN new ELSE cur

\* does the save succeed against the collection vs
SaveOk(vs, id, old, new) ==
    /\ id \in DOMAIN vs
    /\ Spliced(old, new) => vs[id].v = old.v

\* the collection after a successful save
SaveVideo(vs, id, old, new) ==
    LET cur == vs[id]
    IN  [vs EXCEPT ![id] =
            [cur EXCEPT
                !.views = SaveNumber(cur.views, old.views, new.views),
                !.likes = SaveNumber(cur.likes, old.likes, new.likes),
                !.dislikes = SaveNumber(cur.dislikes, old.dislikes, new.dislikes),
                !.userLikes = SaveArray(cur.userLikes, old.userLikes, new.userLikes),
                !.userDislikes = SaveArray(cur.userDislikes, old.userDislikes, new.userDislikes),
                !.v = IF Spliced(old, new) \/ Pushed(old, new) THEN cur.v + 1 ELSE cur.v]]

\* the body of POST /api/videos: duration is None when the body has none
UploadRequest(token, title, category, channelId, duration) ==
    [op |-> "videoUpload", token |-> token, id |-> channelId, name |-> title,
     text |-> category, duration |-> duration]

\* duration: generateDuration(), whatever the body holds
BodyDuration(duration, rnd) == generateDuration(rnd[1], rnd[2])

\* POST /api/videos, handled atomically; rnd are the two random draws
VideoUpload(token, title, category, channelId, now, duration, rnd) ==
    LET a == auth(token, users)
        r == UploadRequest(token, title, category, channelId, duration)
        id == nextId.video
    IN  /\ IF ~a.next
           THEN Reply(r, 401, None, 0) /\ UNCHANGED <<channels, videos, nextId>>
           ELSE IF ~validateVideo(title, category)
           THEN Reply(r, 400, a.user, 0) /\ UNCHANGED <<channels, videos, nextId>>
           ELSE IF channelId \notin DOMAIN channels
           THEN Reply(r, 404, a.user, 0) /\ UNCHANGED <<channels, videos, nextId>>
           ELSE IF ~IsChannelOwner(channels[channelId], a.user)
           THEN Reply(r, 403, a.user, 0) /\ UNCHANGED <<channels, videos, nextId>>
           ELSE /\ id <= MaxVideos
                /\ ClockReads(now)
                /\ videos' = Put(videos, id, NewVideo(title, category, channelId, a.user, now,
                                                  BodyDuration(duration, rnd)))
                /\ channels' = PushVideo(channels, channelId, id)
                /\ nextId' = [nextId EXCEPT !.video = id + 1]
                /\ Reply(r, 201, a.user, id)
        /\ UNCHANGED <<users, comments, inflight, frontend>>

\* PUT /api/videos/:id, handled atomically; a category outside the enum
\* fails the schema validator of the update (runValidators)
VideoUpdate(token, id, title, category) ==
    LET a == auth(token, users)
        r == Request("videoUpdate", token, id, title, category)
    IN  /\ IF ~a.next
           THEN Reply(r, 401, None, 0) /\ UNCHANGED videos
           ELSE IF ~validateVideoUpdate(title)
           THEN Reply(r, 400, a.user, 0) /\ UNCHANGED videos
           ELSE IF id \notin DOMAIN videos
           THEN Reply(r, 404, a.user, 0) /\ UNCHANGED videos
           ELSE IF ~IsUploader(videos[id], a.user)
           THEN Reply(r, 403, a.user, 0) /\ UNCHANGED videos
           ELSE IF category \notin Categories
           THEN Reply(r, 500, a.user, 0) /\ UNCHANGED videos
           ELSE /\ videos' = SetVideo(videos, id, title, category)
                /\ Reply(r, 200, a.user, 0)
        /\ UNCHANGED <<users, channels, comments, nextId, inflight, frontend>>

\* mutant: deleting a video deletes its comments too
VideoDelete_Cascade(token, id) ==
    LET a == auth(token, users)
        r == Request("videoDelete", token, id, None, None)
    IN  /\ IF ~a.next
           THEN Reply(r, 401, None, 0) /\ UNCHANGED <<channels, videos, comments>>
           ELSE IF id \notin DOMAIN videos
           THEN Reply(r, 404, a.user, 0) /\ UNCHANGED <<channels, videos, comments>>
           ELSE IF ~IsUploader(videos[id], a.user)
           THEN Reply(r, 403, a.user, 0) /\ UNCHANGED <<channels, videos, comments>>
           ELSE /\ channels' = PullVideo(channels, videos[id].channelId, id)
                /\ videos' = Drop(videos, id)
                /\ comments' = [c \in {d \in DOMAIN comments : comments[d].videoId # id}
                                   |-> comments[c]]
                /\ Reply(r, 200, a.user, 0)
        /\ UNCHANGED <<users, nextId, inflight, frontend>>

\* DELETE /api/videos/:id, handled atomically
VideoDelete(token, id) ==
    LET a == auth(token, users)
        r == Request("videoDelete", token, id, None, None)
    IN  /\ IF ~a.next
           THEN Reply(r, 401, None, 0) /\ UNCHANGED <<channels, videos>>
           ELSE IF id \notin DOMAIN videos
           THEN Reply(r, 404, a.user, 0) /\ UNCHANGED <<channels, videos>>
           ELSE IF ~IsUploader(videos[id], a.user)
           THEN Reply(r, 403, a.user, 0) /\ UNCHANGED <<channels, videos>>
           ELSE /\ channels' = PullVideo(channels, videos[id].channelId, id)
                /\ videos' = Drop(videos, id)
                /\ Reply(r, 200, a.user, 0)
        /\ UNCHANGED <<users, comments, nextId, inflight, frontend>>

\* the model follows a video while its __v stays within MaxVersion
VersionRoom(vs, id, old, new) ==
    (Spliced(old, new) \/ Pushed(old, new)) => vs[id].v < MaxVersion

\* the handler body of /like or /dislike on the loaded document
Engage(op, doc, userId, action) ==
    IF op = "videoLike" THEN LikeDoc(doc, userId, action)
    ELSE DislikeDoc(doc, userId, action)

\* POST /api/videos/:id/like and /dislike, handled atomically
VideoEngage(op, token, id, action) ==
    LET a == auth(token, users)
        r == Request(op, token, id, action, None)
    IN  /\ IF ~a.next
           THEN Reply(r, 401, None, 0) /\ UNCHANGED videos
           ELSE IF id \notin DOMAIN videos
           THEN Reply(r, 404, a.user, 0) /\ UNCHANGED videos
           ELSE LET old == videos[id]
                    new == Engage(op, old, a.user, action)
                IN  /\ VersionRoom(videos, id, old, new)
                    /\ IF SaveOk(videos, id, old, new)
                       THEN videos' = SaveVideo(videos, id, old, new) /\ Reply(r, 200, a.user, 0)
                       ELSE UNCHANGED videos /\ Reply(r, 500, a.user, 0)
        /\ UNCHANGED <<users, channels, comments, nextId, inflight, frontend>>

VideoLike(token, id, action) == VideoEngage("videoLike", token, id, action)

VideoDislike(token, id, action) == VideoEngage("videoDislike", token, id, action)

\* POST /:id/like and /:id/dislike up to the answer of Video.findById
VideoEngageFind(s, op, token, id, action) ==
    LET a == auth(token, users)
    IN  /\ inflight[s].pc = "idle"
        /\ IF ~a.next
           THEN Refuse
           ELSE IF id \notin DOMAIN videos
           THEN Refuse
           ELSE /\ inflight' = [inflight EXCEPT ![s] =
                       Slot("save", op, token, a.user, id, action, None, videos[id])]
                /\ UNCHANGED <<req, res>>
        /\ UNCHANGED <<users, channels, videos, comments, nextId, frontend>>

\* the handler body, await video.save() and the response
VideoEngageSave(s) ==
    LET sl == inflight[s]
        old == sl.doc
        new == Engage(sl.op, old, sl.user, sl.name)
    IN  /\ sl.pc = "save" /\ sl.op \in {"videoLike", "videoDislike"}
        /\ IF SaveOk(videos, sl.id, old, new)
           THEN /\ VersionRoom(videos, sl.id, old, new)
                /\ videos' = SaveVideo(videos, sl.id, old, new)
                /\ Finish(s)
           ELSE UNCHANGED videos /\ Finish(s)
        /\ UNCHANGED <<users, channels, comments, nextId, frontend>>

\* video.views += 1 on the loaded document
ViewDoc(doc) == [doc EXCEPT !.views = @ + 1]

\* POST /api/videos/:id/view, handled atomically
VideoView(token, id) ==
    LET a == optionalAuth(token, users)
        r == Request("videoView", token, id, None, None)
    IN  /\ IF ~a.next
           THEN Reply(r, a.status, None, 0) /\ UNCHANGED videos
           ELSE IF id \notin DOMAIN videos
           THEN Reply(r, 404, a.user, 0) /\ UNCHANGED videos
           ELSE IF a.user # None
           THEN /\ videos[id].views < MaxViews
                /\ videos' = SaveVideo(videos, id, videos[id], ViewDoc(videos[id]))
                /\ Reply(r, 200, a.user, 0)
           ELSE Reply(r, 200, a.user, 0) /\ UNCHANGED videos
        /\ UNCHANGED <<users, channels, comments, nextId, inflight, frontend>>

\* POST /:id/view up to the answer of Video.findById
VideoViewFind(s, token, id) ==
    LET a == optionalAuth(token, users)
    IN  /\ inflight[s].pc = "idle"
        /\ IF ~a.next \/ id \notin DOMAIN videos \/ a.user = None
           THEN Refuse
           ELSE /\ inflight' = [inflight EXCEPT ![s] =
                       Slot("save", "videoView", token, a.user, id, None, None, videos[id])]
                /\ UNCHANGED <<req, res>>
        /\ UNCHANGED <<users, channels, videos, comments, nextId, frontend>>

\* video.views += 1 and await video.save(); the handler keeps its document
VideoViewSave(s) ==
    LET sl == inflight[s]
        old == sl.doc
        new == ViewDoc(old)
    IN  /\ sl.pc = "save" /\ sl.op = "videoView"
        /\ new.views <= MaxViews
        /\ IF SaveOk(videos, sl.id, old, new)
           THEN /\ videos' = SaveVideo(videos, sl.id, old, new)
                /\ inflight' = [inflight EXCEPT ![s].pc = "respond", ![s].doc = new]
                /\ UNCHANGED <<req, res>>
           ELSE UNCHANGED videos /\ Finish(s)
        /\ UNCHANGED <<users, channels, comments, nextId, frontend>>

\* res.json({success: true, views: video.views})
VideoViewRespond(s) ==
    /\ inflight[s].pc = "respond" /\ inflight[s].op = "videoView"
    /\ Finish(s)
    /\ UNCHANGED <<users, channels, videos, comments, nextId, frontend>>

----------------------------------------------------------------------------
(* Upload and delete routes, one action per database round trip *)

\* no request is between its first await and its response
Quiet == \A s \in Slots : inflight[s].pc \in {"idle", "stopped at save",
             "stopped at push", "stopped at pull", "stopped at remove"}

\* POST /api/videos up to the answer of Channel.findById
VideoUploadCheck(s, token, title, category, channelId) ==
    LET a == auth(token, users)
    IN  /\ inflight[s].pc = "idle"
        /\ IF ~a.next
           THEN Refuse
           ELSE IF ~validateVideo(title, category)
           THEN Refuse
           ELSE IF channelId \notin DOMAIN channels
           THEN Refuse
           ELSE IF ~IsChannelOwner(channels[channelId], a.user)
           THEN Refuse
           ELSE /\ inflight' = [inflight EXCEPT ![s] =
                       Slot("save", "videoUpload", token, a.user, 0, title, category,
                            [channelId |-> channelId])]
                /\ UNCHANGED <<req, res>>
        /\ UNCHANGED <<users, channels, videos, comments, nextId, frontend>>

\* await video.save()
VideoUploadSave(s, now, rnd) ==
    LET sl == inflight[s]
        id == nextId.video
    IN  /\ sl.pc = "save" /\ sl.op = "videoUpload"
        /\ id <= MaxVideos
        /\ ClockReads(now)
        /\ videos' = Put(videos, id, NewVideo(sl.name, sl.text, sl.doc.channelId, sl.user, now,
                                                  generateDuration(rnd[1], rnd[2])))
        /\ nextId' = [nextId EXCEPT !.video = id + 1]
        /\ inflight' = [inflight EXCEPT ![s].pc = "push", ![s].id = id]
        /\ UNCHANGED <<users, channels, comments, req, res, frontend>>

\* await Channel.findByIdAndUpdate(channelId, {$push}) and the 201 response
VideoUploadPush(s) ==
    LET sl == inflight[s]
    IN  /\ sl.pc = "push" /\ sl.op = "videoUpload"
        /\ channels' = PushVideo(channels, sl.doc.channelId, sl.id)
        /\ Finish(s)
        /\ UNCHANGED <<users, videos, comments, nextId, frontend>>

\* DELETE /api/videos/:id up to the answer of Video.findById
VideoDeleteFind(s, token, id) ==
    LET a == auth(token, users)
    IN  /\ inflight[s].pc = "idle"
        /\ IF ~a.next
           THEN Refuse
           ELSE IF id \notin DOMAIN videos
           THEN Refuse
           ELSE IF ~IsUploader(videos[id], a.user)
           THEN Refuse
           ELSE /\ inflight' = [inflight EXCEPT ![s] =
                       Slot("pull", "videoDelete", token, a.user, id, None, None,
                            [channelId |-> videos[id].channelId])]
                /\ UNCHANGED <<req, res>>
        /\ UNCHANGED <<users, channels, videos, comments, nextId, frontend>>

\* mutant: the document is deleted where the id should be pulled
VideoDeletePull_DocFirst(s) ==
    LET sl == inflight[s]
    IN  /\ sl.pc = "pull" /\ sl.op = "videoDelete"
        /\ videos' = Drop(videos, sl.id)
        /\ inflight' = [inflight EXCEPT ![s].pc = "remove"]
        /\ UNCHANGED <<users, channels, comments, nextId, req, res, frontend>>

\* await Channel.findByIdAndUpdate(video.channelId, {$pull})
VideoDeletePull(s) ==
    LET sl == inflight[s]
    IN  /\ sl.pc = "pull" /\ sl.op = "videoDelete"
        /\ channels' = PullVideo(channels, sl.doc.channelId, sl.id)
        /\ inflight' = [inflight EXCEPT ![s].pc = "remove"]
        /\ UNCHANGED <<users, videos, comments, nextId, req, res, frontend>>

\* await Video.findByIdAndDelete(id) and the 200 response
VideoDeleteRemove(s) ==
    LET sl == inflight[s]
    IN  /\ sl.pc = "remove" /\ sl.op = "videoDelete"
        /\ videos' = Drop(videos, sl.id)
        /\ Finish(s)
        /\ UNCHANGED <<users, channels, comments, nextId, frontend>>

\* DELETE /api/channels/:id up to the answer of Channel.findById
ChannelDeleteFind(s, token, id) ==
    LET a == auth(token, users)
    IN  /\ inflight[s].pc = "idle"
        /\ IF ~a.next
           THEN Refuse
           ELSE IF id \notin DOMAIN channels
           THEN Refuse
           ELSE IF ~IsChannelOwner(channels[id], a.user)
           THEN Refuse
           ELSE /\ inflight' = [inflight EXCEPT ![s] =
                       Slot("pull", "channelDelete", token, a.user, id, None, None, None)]
                /\ UNCHANGED <<req, res>>
        /\ UNCHANGED <<users, channels, videos, comments, nextId, frontend>>

\* await User.findByIdAndUpdate(req.user._id, {$pull})
ChannelDeletePull(s) ==
    LET sl == inflight[s]
    IN  /\ sl.pc = "pull" /\ sl.op = "channelDelete"
        /\ users' = PullChannel(users, sl.user, sl.id)
        /\ inflight' = [inflight EXCEPT ![s].pc = "remove"]
        /\ UNCHANGED <<channels, videos, comments, nextId, req, res, frontend>>

\* await Channel.findByIdAndDelete(id) and the 200 response
ChannelDeleteRemove(s) ==
    LET sl == inflight[s]
    IN  /\ sl.pc = "remove" /\ sl.op = "channelDelete"
        /\ channels' = Drop(channels, sl.id)
        /\ Finish(s)
        /\ UNCHANGED <<users, videos, comments, nextId, frontend>>

\* the process stops while the handler waits for a write: the handler's
\* remaining statements never run, the store keeps what was written
Crash(s) ==
    /\ inflight[s].pc \in {"save", "push", "pull", "remove"}
    /\ inflight' = [inflight EXCEPT ![s].pc = "stopped at " \o inflight[s].pc]
    /\ UNCHANGED <<users, channels, videos, comments, nextId, req, res, frontend>>

----------------------------------------------------------------------------
(* Comment routes *)

MaxTextLen == 500

\* validateComment: text 1..500 characters
validateComment(text) == Len(text) >= 1 /\ Len(text) <= MaxTextLen

\* new Comment({videoId, userId, text}); timestamp defaults to Date.now
NewComment(videoId, userId, text, now) ==
    [videoId |-> videoId, userId |-> userId, text |-> text, timestamp |-> now]


\* mutant: the author comparison always succeeds
IsAuthor_Any(comment, user) == TRUE

\* comment.userId.toString() !== userId.toString() is false
IsAuthor(comment, user) == comment.userId = user

\* Comment.findByIdAndUpdate(commentId, {text})
SetComment(cs, id, text) ==
    IF id \in DOMAIN cs
    THEN [cs EXCEPT ![id].text = text]
    ELSE cs

\* POST /api/comments, handled atomically
CommentCreate(token, videoId, text, now) ==
    LET a == auth(token, users)
        r == Request("commentCreate", token, videoId, None, text)
        id == nextId.comment
    IN  /\ IF ~a.next
           THEN Reply(r, 401, None, 0) /\ UNCHANGED <<comments, nextId>>
           ELSE IF ~validateComment(text)
           THEN Reply(r, 400, a.user, 0) /\ UNCHANGED <<comments, nextId>>
           ELSE IF videoId \notin DOMAIN videos
           THEN Reply(r, 404, a.user, 0) /\ UNCHANGED <<comments, nextId>>
           ELSE /\ id <= MaxComments
                /\ ClockReads(now)
                /\ comments' = Put(comments, id, NewComment(videoId, a.user, text, now))
                /\ nextId' = [nextId EXCEPT !.comment = id + 1]
                /\ Reply(r, 201, a.user, id)
        /\ UNCHANGED <<users, channels, videos, inflight, frontend>>

\* PUT /api/comments/:commentId, handled atomically
CommentUpdate(token, id, text) ==
    LET a == auth(token, users)
        r == Request("commentUpdate", token, id, None, text)
    IN  /\ IF ~a.next
           THEN Reply(r, 401, None, 0) /\ UNCHANGED comments
           ELSE IF ~validateComment(text)
           THEN Reply(r, 400, a.user, 0) /\ UNCHANGED comments
           ELSE IF id \notin DOMAIN comments
           THEN Reply(r, 404, a.user, 0) /\ UNCHANGED comments
           ELSE IF ~IsAuthor(comments[id], a.user)
           THEN Reply(r, 403, a.user, 0) /\ UNCHANGED comments
           ELSE /\ comments' = SetComment(comments, id, text)
                /\ Reply(r, 200, a.user, 0)
        /\ UNCHANGED <<users, channels, videos, nextId, inflight, frontend>>

\* DELETE /api/comments/:commentId, handled atomically
CommentDelete(token, id) ==
    LET a == auth(token, users)
        r == Request("commentDelete", token, id, None, None)
    IN  /\ IF ~a.next
           THEN Reply(r, 401, None, 0) /\ UNCHANGED comments
           ELSE IF id \notin DOMAIN comments
           THEN Reply(r, 404, a.user, 0) /\ UNCHANGED comments
           ELSE IF ~IsAuthor(comments[id], a.user)
           THEN Reply(r, 403, a.user, 0) /\ UNCHANGED comments
           ELSE /\ comments' = Drop(comments, id)
                /\ Reply(r, 200, a.user, 0)
        /\ UNCHANGED <<users, channels, videos, nextId, inflight, frontend>>

----------------------------------------------------------------------------
(* Read routes: the user documents they serialize *)

\* GET /api/channels/:id: owner and the uploaders of the channel's videos,
\* populated with 'username avatar'
ChannelGet(id) ==
    LET r == Request("channelGet", NoToken, id, None, None)
    IN  /\ IF id \notin DOMAIN channels
           THEN ReplyAuth(r, 404, "Channel not found", None, {})
           ELSE ReplyAuth(r, 200, None, None,
                    Populate(users, channels[id].owner)
                    \cup UNION {Populate(users, videos[v].uploader) :
                                  v \in {w \in DOMAIN videos : Contains(channels[id].videos, w)}})
        /\ UNCHANGED <<users, channels, videos, comments, nextId, inflight, frontend>>

\* GET /api/videos/:id: uploader populated with 'username avatar'
VideoGet(token, id) ==
    LET a == optionalAuth(token, users)
        r == Request("videoGet", token, id, None, None)
    IN  /\ IF ~a.next
           THEN ReplyAuth(r, a.status, None, None, {})
           ELSE IF id \notin DOMAIN videos
           THEN ReplyAuth(r, 404, "Video not found", None, {})
           ELSE ReplyAuth(r, 200, None, None, Populate(users, videos[id].uploader))
        /\ UNCHANGED <<users, channels, videos, comments, nextId, inflight, frontend>>

\* a paginated response: the _ids of the documents returned, in order
ListResponse(status, items, total, page, totalPages, body) ==
    [status |-> status, user |-> None, created |-> 0, message |-> None, token |-> None,
     body |-> body, items |-> items, total |-> total, page |-> page,
     totalPages |-> totalPages]

\* a request with page and limit in the query string
ListRequest(op, token, id, category, page, limit) ==
    [op |-> op, token |-> token, id |-> id, name |-> category, text |-> None,
     page |-> page, limit |-> limit]

DefaultCommentLimit == 20
DefaultVideoLimit == 12

\* GET /api/videos without a search text
VideoList(token, category, page, limit) ==
    LET a == optionalAuth(token, users)
        r == ListRequest("videoList", token, 0, category, page, limit)
        p == IF page = None THEN 1 ELSE ToNumber(page)
        l == IF limit = None THEN DefaultVideoLimit ELSE ToNumber(limit)
        skip == (p - 1) * l
        found == IF category \in {None, "", "All"}
                 THEN DOMAIN videos
                 ELSE {v \in DOMAIN videos : videos[v].category = category}
        key == [v \in found |-> videos[v].uploadDate]
        total == Cardinality(found)
    IN  /\ IF ~a.next
           THEN ReplyAuth(r, a.status, None, None, {})
           ELSE \E order \in SortedDesc(found, key) :
                    LET items == Paged(order, skip, l)
                    IN  /\ req' = r
                        /\ res' = ListResponse(200, items, total, p, Ceil(total, l),
                                       UNION {Populate(users, videos[items[i]].uploader) :
                                                 i \in 1..Len(items)})
        /\ UNCHANGED <<users, channels, videos, comments, nextId, inflight, frontend>>

\* GET /api/comments/video/:videoId
CommentList(videoId, page, limit) ==
    LET r == ListRequest("commentList", NoToken, videoId, None, page, limit)
        p == IF page = None THEN 1 ELSE ToNumber(page)
        l == IF limit = None THEN DefaultCommentLimit ELSE ToNumber(limit)
        skip == (p - 1) * l
        found == {c \in DOMAIN comments : comments[c].videoId = videoId}
        key == [c \in found |-> comments[c].timestamp]
        total == Cardinality(found)
    IN  /\ IF videoId \notin DOMAIN videos
           THEN ReplyAuth(r, 404, "Video not found", None, {})
           ELSE \E order \in SortedDesc(found, key) :
                    LET items == Paged(order, skip, l)
                    IN  /\ req' = r
                        /\ res' = ListResponse(200, items, total, p, Ceil(total, l),
                                       UNION {Populate(users, comments[items[i]].userId) :
                                                 i \in 1..Len(items)})
        /\ UNCHANGED <<users, channels, videos, comments, nextId, inflight, frontend>>

----------------------------------------------------------------------------
(* Frontend: AuthProvider (contexts/AuthContext.jsx) and the VideoPlayer page
   (pages/VideoPlayer.jsx).  A state update and the effects it triggers are
   one step; an await ends a step, and the request it waits for is in flight
   until a later step delivers its response.  The responses are any the
   backend can give: success or failure. *)

MaxCalls == 3       \* login and /me requests the AuthProvider sends
MaxPosts == 3       \* view requests the VideoPlayer sends in one session
MaxMounts == 3      \* mounts of the VideoPlayer page

\* value of the context: isAuthenticated: !!token
isAuthenticated(ctx) == ctx.token # None

\* checkAuth, run by the effect on [token]: with a token, GET /api/auth/me
\* is sent and awaited
checkAuth(ctx) ==
    IF ctx.token # None /\ ctx.sent < MaxCalls
    THEN [ctx EXCEPT !.calls = @ \cup {[kind |-> "me", user |-> ctx.token, n |-> ctx.sent + 1]},
                     !.sent = @ + 1]
    ELSE ctx

\* a state update of the provider to token t and user u, and the effect on
\* [token] when the token changed
SetAuth(ctx, t, u) ==
    LET set == [ctx EXCEPT !.token = t, !.user = u]
    IN  IF t # ctx.token THEN checkAuth(set) ELSE set

\* logout(): setToken(null); setUser(null)
logout(ctx) == SetAuth(ctx, None, None)

\* incrementView(): POST /api/videos/:id/view unless not authenticated or
\* already counted
incrementView(p, authed) ==
    IF ~authed \/ p.viewIncremented
    THEN p
    ELSE [p EXCEPT !.views = @ \cup {[videoId |-> p.videoId, instance |-> p.instance,
                                             n |-> p.posts[p.videoId] + 1]},
                   !.posts[p.videoId] = @ + 1]

\* the effect on [isAuthenticated, viewIncremented] of the mounted page
PlayerEffect(p, authed) ==
    IF authed /\ ~p.viewIncremented THEN incrementView(p, authed) ELSE p

\* the effect would send a view request
Posts(p, authed) == PlayerEffect(p, authed) # p

\* the page after the provider's state changed from ctx to new: the effect
\* runs again when isAuthenticated changed; view requests are counted per
\* session, a session starting when a token is set
Rerender(p, ctx, new) ==
    LET q == IF new.token # None /\ new.token # ctx.token
             THEN [p EXCEPT !.posts = [v \in VideoIds |-> 0]]
             ELSE p
    IN  IF p.mounted /\ isAuthenticated(new) # isAuthenticated(ctx)
        THEN PlayerEffect(q, isAuthenticated(new))
        ELSE q

\* room for the view request that the page would send
PostRoom(p, ctx, new) ==
    \A v \in VideoIds : Rerender(p, ctx, new).posts[v] <= MaxPosts

FrontInit ==
    /\ authCtx = [token |-> None, user |-> None, calls |-> {}, sent |-> 0]
    /\ player = [mounted |-> FALSE, videoId |-> 0, viewIncremented |-> FALSE, instance |-> 0,
                 views |-> {}, posts |-> [v \in VideoIds |-> 0]]

\* login(email, password) up to its await: POST /api/auth/login is sent
AuthLogin(u) ==
    /\ authCtx.sent < MaxCalls
    /\ authCtx' = [authCtx EXCEPT !.calls = @ \cup {[kind |-> "login", user |-> u, n |-> authCtx.sent + 1]},
                                  !.sent = @ + 1]
    /\ UNCHANGED <<users, channels, videos, comments, nextId, req, res, inflight, player>>

\* the login response arrives: setToken, setUser on success, nothing on failure
AuthLoginDone(c, ok) ==
    LET new == IF ok THEN SetAuth([authCtx EXCEPT !.calls = @ \ {c}], c.user, c.user)
               ELSE [authCtx EXCEPT !.calls = @ \ {c}]
    IN  /\ c \in authCtx.calls /\ c.kind = "login"
        /\ PostRoom(player, authCtx, new)
        /\ authCtx' = new
        /\ player' = Rerender(player, authCtx, new)
        /\ UNCHANGED <<users, channels, videos, comments, nextId, req, res, inflight>>

\* the /me response arrives: setUser(response.data.user) on success,
\* logout() on failure
AuthCheckDone(c, ok) ==
    LET rest == [authCtx EXCEPT !.calls = @ \ {c}]
        new == IF ok THEN [rest EXCEPT !.user = c.user] ELSE logout(rest)
    IN  /\ c \in authCtx.calls /\ c.kind = "me"
        /\ authCtx' = new
        /\ player' = Rerender(player, authCtx, new)
        /\ UNCHANGED <<users, channels, videos, comments, nextId, req, res, inflight>>

\* the user logs out
AuthLogout ==
    /\ authCtx' = logout(authCtx)
    /\ player' = Rerender(player, authCtx, authCtx')
    /\ UNCHANGED <<users, channels, videos, comments, nextId, req, res, inflight>>

\* the route /video/:videoId is entered: a new instance of the page with
\* fresh state, and its effect runs
PlayerMount(v) ==
    LET fresh == [player EXCEPT !.mounted = TRUE, !.videoId = v, !.viewIncremented = FALSE,
                                !.instance = @ + 1]
    IN  /\ ~player.mounted
        /\ player.instance < MaxMounts
        /\ Posts(fresh, isAuthenticated(authCtx)) => fresh.posts[v] < MaxPosts
        /\ player' = PlayerEffect(fresh, isAuthenticated(authCtx))
        /\ UNCHANGED <<users, channels, videos, comments, nextId, req, res, inflight, authCtx>>

\* the route is left
PlayerUnmount ==
    /\ player.mounted
    /\ player' = [player EXCEPT !.mounted = FALSE]
    /\ UNCHANGED <<users, channels, videos, comments, nextId, req, res, inflight, authCtx>>

\* the route changes to another video id: the same instance renders with
\* the new parameter; the effect's dependencies are unchanged
PlayerRoute(v) ==
    /\ player.mounted /\ v # player.videoId
    /\ player' = [player EXCEPT !.videoId = v]
    /\ UNCHANGED <<users, channels, videos, comments, nextId, req, res, inflight, authCtx>>

\* the response to a view request arrives: setViewIncremented(true) in the
\* instance that sent it, and the effect runs again; nothing on failure
PlayerViewDone(r, ok) ==
    LET rest == [player EXCEPT !.views = @ \ {r}]
    IN  /\ r \in player.views
        /\ player' = IF ok /\ player.mounted /\ r.instance = player.instance
                     THEN PlayerEffect([rest EXCEPT !.viewIncremented = TRUE],
                                       isAuthenticated(authCtx))
                     ELSE rest
        /\ UNCHANGED <<users, channels, videos, comments, nextId, req, res, inflight, authCtx>>

----------------------------------------------------------------------------
(* Initial state: the listed users have signed up; nothing else exists *)

EmptyColl == [k \in {} |-> None]

Init ==
    /\ users = [u \in UserIds |-> SeedUser(u)]
    /\ channels = EmptyColl
    /\ videos = EmptyColl
    /\ comments = EmptyColl
    /\ nextId = [channel |-> 1, video |-> 1, comment |-> 1]
    /\ req = NoRequest
    /\ res = NoResponse
    /\ inflight = [s \in Slots |-> IdleSlot]
    /\ FrontInit

\* channel requests, one at a time, under every kind of token
NextChan ==
    \/ \E t \in AllTokens, n \in Names \cup {""}, d \in Descs : ChannelCreate(t, n, d)
    \/ \E t \in AllTokens, c \in ChannelIds, n \in Names \cup {""}, d \in Descs :
           ChannelUpdate(t, c, n, d)
    \/ \E t \in AllTokens, c \in ChannelIds : ChannelDelete(t, c)

SpecChan == Init /\ [][NextChan]_vars

\* channel create and update requests interleaving at their awaits
NextChanRace ==
    \/ \E s \in Slots, u \in UserIds, n \in Names, d \in Descs :
           ChannelCreateCheck(s, GoodToken(u), n, d)
    \/ \E s \in Slots : ChannelCreateSave(s)
    \/ \E s \in Slots : ChannelCreatePush(s)
    \/ \E s \in Slots, u \in UserIds, c \in ChannelIds, n \in Names, d \in Descs :
           ChannelUpdateFind(s, GoodToken(u), c, n, d)
    \/ \E s \in Slots : ChannelUpdateCheck(s)
    \/ \E s \in Slots : ChannelUpdateWrite(s)

SpecChanRace == Init /\ [][NextChanRace]_vars

\* channels created and deleted, videos uploaded and deleted, one request at
\* a time
NextVideo ==
    \/ \E u \in UserIds, n \in Names, d \in Descs : ChannelCreate(GoodToken(u), n, d)
    \/ \E u \in UserIds, c \in ChannelIds : ChannelDelete(GoodToken(u), c)
    \/ \E u \in UserIds, n \in {"t1", ""}, c \in ChannelIds :
           VideoUpload(GoodToken(u), n, "Music", c, 1, None, <<0, 10>>)
    \/ \E u \in UserIds, v \in VideoIds : VideoDelete(GoodToken(u), v)

SpecVideo == Init /\ [][NextVideo]_vars

\* one user has created a channel and uploaded one video to it
InitLike ==
    /\ users = [u \in UserIds |->
                   [SeedUser(u) EXCEPT !.channels = IF u = "u1" THEN <<1>> ELSE <<>>]]
    /\ channels = Put(EmptyColl, 1, [NewChannel("n1", "u1", "d1") EXCEPT !.videos = <<1>>])
    /\ videos = Put(EmptyColl, 1, NewVideo("t1", "Music", 1, "u1", 1, SeedDuration))
    /\ comments = EmptyColl
    /\ nextId = [channel |-> 2, video |-> 2, comment |-> 1]
    /\ req = NoRequest
    /\ res = NoResponse
    /\ inflight = [s \in Slots |-> IdleSlot]
    /\ FrontInit

\* like and dislike requests, one at a time
NextLike ==
    \/ \E t \in CallerTokens, v \in VideoIds, a \in Actions : VideoLike(t, v, a)
    \/ \E t \in CallerTokens, v \in VideoIds, a \in Actions : VideoDislike(t, v, a)

SpecLike == InitLike /\ [][NextLike]_vars

\* like and dislike requests interleaving between findById and save
NextLikeRace ==
    \/ \E s \in Slots, u \in UserIds, v \in VideoIds, a \in {"like", "remove"} :
           VideoEngageFind(s, "videoLike", GoodToken(u), v, a)
    \/ \E s \in Slots, u \in UserIds, v \in VideoIds, a \in {"dislike", "remove"} :
           VideoEngageFind(s, "videoDislike", GoodToken(u), v, a)
    \/ \E s \in Slots : VideoEngageSave(s)

SpecLikeRace == InitLike /\ [][NextLikeRace]_vars

\* two channels with one video each and one comment exist; the channels'
\* owners are any of the users, the comment's author is the first user
InitOwn ==
    \E o1 \in UserIds, o2 \in UserIds, author \in {"u1"} :
        /\ users = [u \in UserIds |->
                       [SeedUser(u) EXCEPT !.channels = (IF u = o1 THEN <<1>> ELSE <<>>)
                                                        \o (IF u = o2 THEN <<2>> ELSE <<>>)]]
        /\ channels = Put(Put(EmptyColl, 1, [NewChannel("n1", o1, "d1") EXCEPT !.videos = <<1>>]),
                          2, [NewChannel("n2", o2, "d1") EXCEPT !.videos = <<2>>])
        /\ videos = Put(Put(EmptyColl, 1, NewVideo("t1", "Music", 1, o1, 1, SeedDuration)),
                        2, NewVideo("t1", "Music", 2, o2, 1, SeedDuration))
        /\ comments = Put(EmptyColl, 1, NewComment(1, author, "x1", 1))
        /\ nextId = [channel |-> 3, video |-> 3, comment |-> 2]
        /\ req = NoRequest
        /\ res = NoResponse
        /\ inflight = [s \in Slots |-> IdleSlot]
        /\ FrontInit

\* updates and deletes of channels, videos and comments, one request at a time
NextOwn ==
    \/ \E t \in CallerTokens, c \in ChannelIds, n \in Names \cup {""}, d \in Descs :
           ChannelUpdate(t, c, n, d)
    \/ \E t \in CallerTokens, c \in ChannelIds : ChannelDelete(t, c)
    \/ \E t \in CallerTokens, v \in VideoIds, n \in Titles \cup {""} :
           VideoUpdate(t, v, n, "Music")
    \/ \E t \in CallerTokens, v \in VideoIds : VideoDelete(t, v)
    \/ \E t \in CallerTokens, c \in CommentIds, x \in Texts \cup {""} : CommentUpdate(t, c, x)
    \/ \E t \in CallerTokens, c \in CommentIds : CommentDelete(t, c)

SpecOwn == InitOwn /\ [][NextOwn]_vars

\* view requests under every kind of token, likes and dislikes in between
NextView ==
    \/ \E t \in AllTokens, v \in VideoIds : VideoView(t, v)
    \/ \E u \in UserIds, v \in VideoIds : VideoLike(GoodToken(u), v, "like")
    \/ \E u \in UserIds, v \in VideoIds : VideoDislike(GoodToken(u), v, "dislike")

SpecView == InitLike /\ [][NextView]_vars

\* view and like requests interleaving between findById and save
NextCountRace ==
    \/ \E s \in Slots, u \in UserIds, v \in VideoIds : VideoViewFind(s, GoodToken(u), v)
    \/ \E s \in Slots : VideoViewSave(s)
    \/ \E s \in Slots : VideoViewRespond(s)
    \/ \E s \in Slots, u \in UserIds, v \in VideoIds :
           VideoEngageFind(s, "videoLike", GoodToken(u), v, "like")
    \/ \E s \in Slots : VideoEngageSave(s)

SpecCountRace == InitLike /\ [][NextCountRace]_vars

\* signups, logins and profile requests
NextAuth ==
    \/ \E n \in Usernames, e \in Emails, p \in Passwords : Signup(n, e, p)
    \/ \E e \in Emails, p \in Passwords : Login(e, p)
    \/ \E t \in AllTokens \cup {GoodToken(u) : u \in DOMAIN users} : Me(t)

SpecAuth == Init /\ [][NextAuth]_vars

\* signups, logins and the routes that serialize user documents, on a
\* store with channels, videos and a comment
NextProfile ==
    \/ \E n \in {"carol", "alice"}, e \in {"carol@x.io", "Alice@X.io"}, p \in {"secret1"} :
           Signup(n, e, p)
    \/ \E e \in Emails, p \in Passwords : Login(e, p)
    \/ \E t \in AllTokens \cup {GoodToken(u) : u \in DOMAIN users} : Me(t)
    \/ \E c \in ChannelIds : ChannelGet(c)
    \/ \E t \in CallerTokens, v \in VideoIds : VideoGet(t, v)
    \/ \E v \in VideoIds : CommentList(v, None, None)

SpecProfile == InitOwn /\ [][NextProfile]_vars

\* comments created and listed on the uploaded video
NextComment ==
    \/ \E u \in UserIds, v \in VideoIds, now \in Times :
           CommentCreate(GoodToken(u), v, "x1", now)
    \/ \E v \in VideoIds, p, l \in {None, "1", "2"} : CommentList(v, p, l)

SpecComment == InitLike /\ [][NextComment]_vars

\* uploads to the channel and pages of the video list
NextList ==
    \/ \E c \in {"Music", "Gaming"}, now \in Times :
           VideoUpload(GoodToken("u1"), "t1", c, 1, now, None, <<0, 10>>)
    \/ \E t \in {NoToken, GoodToken("u2")}, c \in {None, "All", "Music", "Gaming"},
          p \in {None, "1", "2"}, l \in {None, "1", "2"} : VideoList(t, c, p, l)

SpecList == InitLike /\ [][NextList]_vars

\* edits of the uploaded video, with views and likes in between
NextEdit ==
    \/ \E t \in CallerTokens, v \in VideoIds, n \in Titles \cup {""},
          c \in {"Music", "Gaming", "Bogus"} : VideoUpdate(t, v, n, c)
    \/ \E u \in UserIds, v \in VideoIds : VideoLike(GoodToken(u), v, "like")
    \/ \E u \in UserIds, v \in VideoIds : VideoView(GoodToken(u), v)

SpecEdit == InitLike /\ [][NextEdit]_vars

\* uploads and video deletes, one request at a time, each write a step of
\* its own; the process can stop between two steps of a request
NextCrash ==
    \/ \E s \in Slots, n \in Titles, c \in ChannelIds :
           Quiet /\ VideoUploadCheck(s, GoodToken("u1"), n, "Music", c)
    \/ \E s \in Slots, now \in Times : VideoUploadSave(s, now, <<0, 10>>)
    \/ \E s \in Slots : VideoUploadPush(s)
    \/ \E s \in Slots, t \in CallerTokens, v \in VideoIds : Quiet /\ VideoDeleteFind(s, t, v)
    \/ \E s \in Slots : VideoDeletePull(s)
    \/ \E s \in Slots : VideoDeleteRemove(s)
    \/ \E s \in Slots : Crash(s)

SpecCrash == InitLike /\ [][NextCrash]_vars

\* uploads to the seeded channel with and without a duration in the body,
\* under the random draws of generateDuration
NextUpload ==
    \E t \in CallerTokens, n \in {"t1", ""}, d \in {None, "07:07", "1:02:03"},
       m \in MinuteDraws, s \in SecondDraws :
        VideoUpload(t, n, "Music", 1, 1, d, <<m, s>>)

SpecUpload == InitLike /\ [][NextUpload]_vars

\* the browser: logins, logouts, auth checks, and the video page
NextFront ==
    \/ \E u \in UserIds : AuthLogin(u)
    \/ \E c \in authCtx.calls, ok \in BOOLEAN : AuthLoginDone(c, ok)
    \/ \E c \in authCtx.calls, ok \in BOOLEAN : AuthCheckDone(c, ok)
    \/ AuthLogout
    \/ \E v \in VideoIds : PlayerMount(v)
    \/ PlayerUnmount
    \/ \E v \in VideoIds : PlayerRoute(v)
    \/ \E r \in player.views, ok \in BOOLEAN : PlayerViewDone(r, ok)

SpecFront == Init /\ [][NextFront]_vars

\* channels and videos created, updated and deleted, one request at a time
NextCatalog ==
    \/ \E u \in UserIds, d \in Descs : ChannelCreate(GoodToken(u), "n1", d)
    \/ \E u \in UserIds, c \in ChannelIds, d \in Descs : ChannelUpdate(GoodToken(u), c, "n2", d)
    \/ \E u \in UserIds, c \in ChannelIds : ChannelDelete(GoodToken(u), c)
    \/ \E u \in UserIds, c \in ChannelIds :
           VideoUpload(GoodToken(u), "t1", "Music", c, 1, None, <<0, 10>>)
    \/ \E u \in UserIds, v \in VideoIds : VideoUpdate(GoodToken(u), v, "t2", "Gaming")
    \/ \E u \in UserIds, v \in VideoIds : VideoDelete(GoodToken(u), v)

SpecCatalog == InitLike /\ [][NextCatalog]_vars

\* PUT requests on the seeded channels, videos and comment, one at a time
NextPut ==
    \/ \E t \in CallerTokens, c \in ChannelIds, n \in {"n2", ""}, d \in Descs :
           ChannelUpdate(t, c, n, d)
    \/ \E t \in CallerTokens, v \in VideoIds, n \in {"t2", ""} : VideoUpdate(t, v, n, "Music")
    \/ \E t \in CallerTokens, c \in CommentIds, x \in {"x2", ""} : CommentUpdate(t, c, x)

SpecPut == InitOwn /\ [][NextPut]_vars

\* creates, uploads and deletes, one request at a time, each database write
\* a step of its own
NextWrites ==
    \/ \E s \in Slots, u \in UserIds, n \in Names :
           Quiet /\ ChannelCreateCheck(s, GoodToken(u), n, "d1")
    \/ \E s \in Slots : ChannelCreateSave(s)
    \/ \E s \in Slots : ChannelCreatePush(s)
    \/ \E s \in Slots, u \in UserIds, c \in ChannelIds :
           Quiet /\ VideoUploadCheck(s, GoodToken(u), "t1", "Music", c)
    \/ \E s \in Slots : VideoUploadSave(s, 1, <<0, 10>>)
    \/ \E s \in Slots : VideoUploadPush(s)
    \/ \E s \in Slots, u \in UserIds, v \in VideoIds : Quiet /\ VideoDeleteFind(s, GoodToken(u), v)
    \/ \E s \in Slots : VideoDeletePull(s)
    \/ \E s \in Slots : VideoDeleteRemove(s)
    \/ \E s \in Slots, u \in UserIds, c \in ChannelIds : Quiet /\ ChannelDeleteFind(s, GoodToken(u), c)
    \/ \E s \in Slots : ChannelDeletePull(s)
    \/ \E s \in Slots : ChannelDeleteRemove(s)

SpecWrites == Init /\ [][NextWrites]_vars

\* an upload and deletes of videos by the channel's owner, interleaving at
\* their awaits
NextUploadRace ==
    \/ \E s \in Slots : VideoUploadCheck(s, GoodToken("u1"), "t1", "Music", 1)
    \/ \E s \in Slots : VideoUploadSave(s, 1, <<0, 10>>)
    \/ \E s \in Slots : VideoUploadPush(s)
    \/ \E s \in Slots, v \in VideoIds : VideoDeleteFind(s, GoodToken("u1"), v)
    \/ \E s \in Slots : VideoDeletePull(s)
    \/ \E s \in Slots : VideoDeleteRemove(s)

SpecUploadRace == InitLike /\ [][NextUploadRace]_vars

\* likes, dislikes and views of the uploaded video, one request at a time
NextEngage ==
    \/ \E t \in CallerTokens, v \in VideoIds, a \in Actions : VideoLike(t, v, a)
    \/ \E t \in CallerTokens, v \in VideoIds, a \in Actions : VideoDislike(t, v, a)
    \/ \E u \in UserIds, v \in VideoIds : VideoView(GoodToken(u), v)

SpecEngage == InitLike /\ [][NextEngage]_vars

\* every route, one request at a time
Next ==
    \/ NextAuth
    \/ NextChan
    \/ NextVideo
    \/ \E t \in CallerTokens, v \in VideoIds, a \in Actions : VideoLike(t, v, a)
    \/ \E t \in CallerTokens, v \in VideoIds, a \in Actions : VideoDislike(t, v, a)
    \/ \E t \in CallerTokens, v \in VideoIds : VideoView(t, v)
    \/ \E c \in ChannelIds : ChannelGet(c)
    \/ \E t \in CallerTokens, v \in VideoIds : VideoGet(t, v)
    \/ \E t \in CallerTokens, v \in VideoIds, n \in Titles \cup {""}, c \in {"Music", "Bogus"} :
           VideoUpdate(t, v, n, c)
    \/ \E t \in CallerTokens, c \in {None, "All", "Music"}, p, l \in QueryNumbers \cup {None} :
           VideoList(t, c, p, l)
    \/ \E t \in CallerTokens, v \in VideoIds, x \in Texts \cup {""}, now \in Times :
           CommentCreate(t, v, x, now)
    \/ \E v \in VideoIds, p, l \in QueryNumbers \cup {None} : CommentList(v, p, l)
    \/ \E t \in CallerTokens, c \in CommentIds, x \in Texts \cup {""} : CommentUpdate(t, c, x)
    \/ \E t \in CallerTokens, c \in CommentIds : CommentDelete(t, c)

Spec == Init /\ [][Next]_vars

----------------------------------------------------------------------------
(* Likes and dislikes *)

\* the user the last request was made by, and the video it named
Caller == req.token.userId

IsLike(r) == r.op = "videoLike" /\ r.name = "like"
IsDislike(r) == r.op = "videoDislike" /\ r.name = "dislike"

\* C1: no user id is in both userLikes and userDislikes of a video
C1_LikeDislikeExclusive ==
    \A v \in DOMAIN videos, u \in UserIds :
        ~(Contains(videos[v].userLikes, u) /\ Contains(videos[v].userDislikes, u))

\* C2: after a successful like the caller is in userLikes exactly once and
\* not in userDislikes; after a successful dislike the caller is in
\* userDislikes exactly once and not in userLikes
C2_LikeThenDislike ==
    [][(res'.status = 200 /\ (IsLike(req') \/ IsDislike(req')))
        => LET u == req'.token.userId
               doc == videos'[req'.id]
           IN  IF IsLike(req')
               THEN Count(doc.userLikes, u) = 1 /\ Count(doc.userDislikes, u) = 0
               ELSE Count(doc.userDislikes, u) = 1 /\ Count(doc.userLikes, u) = 0
      ]_vars

\* C2 witness: two array-changing saves have left one user in userDislikes
\* and nobody in userLikes, the last request being that user's dislike: the
\* user liked the video and then disliked it
C2_Witness ==
    /\ IsDislike(req) /\ res.status = 200
    /\ videos[req.id].v = 2
    /\ videos[req.id].userDislikes = <<Caller>>
    /\ videos[req.id].userLikes = <<>>
    /\ videos[req.id].dislikes = 1 /\ videos[req.id].likes = 0

\* C3: a like by a user who is in userLikes already (a dislike by a user in
\* userDislikes already) leaves the whole video document as it was; a like
\* by a user who is not in userLikes raises likes by one
C3_RepeatedLikeUnchanged ==
    [][(res'.status = 200 /\ (IsLike(req') \/ IsDislike(req')))
        => LET u == req'.token.userId
               old == videos[req'.id]
               new == videos'[req'.id]
           IN  IF IsLike(req')
               THEN IF Contains(old.userLikes, u)
                    THEN videos' = videos
                    ELSE new.likes = old.likes + 1
               ELSE IF Contains(old.userDislikes, u)
                    THEN videos' = videos
                    ELSE new.dislikes = old.dislikes + 1
      ]_vars

\* C3 witness: the last request was a like by the user who is first in
\* userLikes, ahead of a user who liked later, so it was a repeated like;
\* likes counts the two users
C3_Witness ==
    /\ IsLike(req) /\ res.status = 200
    /\ Len(videos[req.id].userLikes) = 2
    /\ videos[req.id].userLikes[1] = Caller
    /\ videos[req.id].userLikes[2] # Caller
    /\ videos[req.id].likes = 2

\* the step in which slot s saves and answers
Saves(s) == inflight[s].pc = "save" /\ inflight'[s].pc = "idle"

\* C4: likes and dislikes never go below zero, also when requests interleave,
\* and a remove on /like (on /dislike) by a user who is not in userLikes
\* (userDislikes), as the handler loaded it or as it is stored at the save,
\* changes no video
C4_CountersNotNegative ==
    /\ [](\A v \in DOMAIN videos : videos[v].likes >= 0 /\ videos[v].dislikes >= 0)
    /\ [][\A s \in Slots :
            (Saves(s) /\ inflight[s].name = "remove")
                => LET sl == inflight[s]
                       member(doc) == IF sl.op = "videoLike"
                                      THEN Contains(doc.userLikes, sl.user)
                                      ELSE Contains(doc.userDislikes, sl.user)
                   IN  (~member(sl.doc) \/ ~member(videos[sl.id])) => videos' = videos
         ]_vars

\* C4 witness: lost updates have left a user in userLikes while likes is 0,
\* and that user's remove is about to be saved against an unchanged __v
C4_Witness ==
    \E s \in Slots :
        LET sl == inflight[s]
        IN  /\ sl.pc = "save" /\ sl.op = "videoLike" /\ sl.name = "remove"
            /\ Contains(sl.doc.userLikes, sl.user)
            /\ sl.doc.likes = 0
            /\ sl.id \in DOMAIN videos
            /\ videos[sl.id].v = sl.doc.v
            /\ videos[sl.id].v < MaxVersion

----------------------------------------------------------------------------
(* Channel names are unique per owner *)

\* owner has a channel named name in the collection chs
OwnsChannelNamed(chs, owner, name) ==
    \E c \in DOMAIN chs : chs[c].owner = owner /\ chs[c].channelName = name

\* the token resolves to a user of the database
TokenResolves(t) ==
    t.present /\ t.signed /\ ~t.expired /\ t.userId \in DOMAIN users

ValidChannelBody(r) ==
    Len(r.name) \in 1..MaxNameLen /\ Len(r.text) \in 1..MaxDescLen

\* C5: a create by an owner who already has a channel of that name answers
\* 400 and leaves the channels collection and every user's channels list as
\* they were; a create of a name the caller does not have yet, whoever else
\* has it, answers 201 and adds one channel owned by the caller to the
\* collection and to the end of the caller's channels list.
C5_DuplicateCreateRejected ==
    [][(req'.op = "channelCreate" /\ TokenResolves(req'.token) /\ ValidChannelBody(req'))
        => LET owner == req'.token.userId
           IN  IF OwnsChannelNamed(channels, owner, req'.name)
               THEN /\ res'.status = 400
                    /\ channels' = channels
                    /\ users' = users
               ELSE /\ res'.status = 201
                    /\ DOMAIN channels' = DOMAIN channels \cup {res'.created}
                    /\ res'.created \notin DOMAIN channels
                    /\ channels'[res'.created].owner = owner
                    /\ channels'[res'.created].channelName = req'.name
                    /\ users'[owner].channels = Append(users[owner].channels, res'.created)
      ]_vars

\* C5 witness: a duplicate create was just rejected while another owner holds
\* a channel of the same name
C5_Witness ==
    /\ req.op = "channelCreate" /\ res.status = 400
    /\ TokenResolves(req.token) /\ ValidChannelBody(req)
    /\ OwnsChannelNamed(channels, req.token.userId, req.name)
    /\ \E o \in UserIds \ {req.token.userId} : OwnsChannelNamed(channels, o, req.name)

\* C6: no owner has two channels with the same channelName
C6_UniqueNamesPerOwner ==
    \A c1 \in DOMAIN channels, c2 \in DOMAIN channels :
        (c1 # c2 /\ channels[c1].owner = channels[c2].owner)
            => channels[c1].channelName # channels[c2].channelName

\* C10: a request whose token is missing, fails verification, is expired or
\* names a user that is not in the database is answered 401, the handler
\* does not run and nothing in the database changes; any other request
\* reaches the handler with req.user the token's user.
C10_AuthRejects ==
    [][IF TokenResolves(req'.token)
       THEN res'.status # 401 /\ res'.user = req'.token.userId
       ELSE /\ res'.status = 401
            /\ res'.user = None
            /\ UNCHANGED <<users, channels, videos, comments, nextId>>
      ]_vars

\* C10 witness: a verified, unexpired token of a user that is not in the
\* database was answered 401 on a create that would otherwise have succeeded
C10_Witness ==
    /\ req.op = "channelCreate" /\ res.status = 401
    /\ req.token.present /\ req.token.signed /\ ~req.token.expired
    /\ req.token.userId \notin DOMAIN users
    /\ ValidChannelBody(req)
    /\ nextId.channel <= MaxChannels

----------------------------------------------------------------------------
(* Video upload and deletion *)

\* the sequence s without the entries equal to x
Without(s, x) == SelectSeq(s, LAMBDA e : e # x)

\* every document of coll other than id is in coll2 as it was
OthersKept(coll, coll2, id) ==
    \A k \in DOMAIN coll \ {id} : k \in DOMAIN coll2 /\ coll2[k] = coll[k]

ValidVideoBody(r) == Len(r.name) \in 1..MaxTitleLen

ValidUploadBody(r) == ValidVideoBody(r) /\ r.text \in Categories

\* C7: a DELETE /api/videos/:id answered 200 was made by the uploader,
\* removes the video document and leaves the list of the video's channel
\* without the video's id, its other entries and all other documents as
\* they were
C7_DeletePullsFromChannel ==
    [][(req'.op = "videoDelete" /\ res'.status = 200)
        => LET id == req'.id
               ch == videos[id].channelId
           IN  /\ id \in DOMAIN videos
               /\ videos[id].uploader = req'.token.userId
               /\ DOMAIN videos' = DOMAIN videos \ {id}
               /\ OthersKept(videos, videos', id)
               /\ DOMAIN channels' = DOMAIN channels
               /\ OthersKept(channels, channels', ch)
               /\ ch \in DOMAIN channels
                    => /\ ~Contains(channels'[ch].videos, id)
                       /\ channels'[ch].videos = Without(channels[ch].videos, id)
                       /\ [channels'[ch] EXCEPT !.videos = <<>>]
                            = [channels[ch] EXCEPT !.videos = <<>>]
      ]_vars

\* C7 witness: both videos ever uploaded went to the only channel ever
\* created; video 1 has been deleted and the list holds video 2 alone
C7_Witness ==
    /\ req.op = "videoDelete" /\ res.status = 200 /\ req.id = 1
    /\ nextId.channel = 2 /\ nextId.video = 3
    /\ DOMAIN videos = {2}
    /\ 1 \in DOMAIN channels /\ channels[1].videos = <<2>>

\* C9: an upload with a valid body answers 404 when the channel does not
\* exist and 403 when the caller does not own it, creating no video and
\* changing no channel; otherwise it answers 201, the new video has that
\* channelId and the caller as uploader, and its id is appended once to
\* that channel's list
C9_UploadNeedsOwnedChannel ==
    [][(req'.op = "videoUpload" /\ TokenResolves(req'.token) /\ ValidUploadBody(req'))
        => LET ch == req'.id
               caller == req'.token.userId
               new == res'.created
           IN  IF ch \notin DOMAIN channels
               THEN res'.status = 404 /\ videos' = videos /\ channels' = channels
               ELSE IF channels[ch].owner # caller
               THEN res'.status = 403 /\ videos' = videos /\ channels' = channels
               ELSE /\ res'.status = 201
                    /\ new \notin DOMAIN videos
                    /\ DOMAIN videos' = DOMAIN videos \cup {new}
                    /\ OthersKept(videos, videos', new)
                    /\ videos'[new].channelId = ch
                    /\ videos'[new].uploader = caller
                    /\ DOMAIN channels' = DOMAIN channels
                    /\ OthersKept(channels, channels', ch)
                    /\ channels'[ch].videos = Append(channels[ch].videos, new)
                    /\ Count(channels'[ch].videos, new) = 1
      ]_vars

\* C9 witness: an upload to another user's channel, which holds a video,
\* was answered 403
C9_Witness ==
    /\ req.op = "videoUpload" /\ res.status = 403
    /\ TokenResolves(req.token) /\ ValidUploadBody(req)
    /\ req.id \in DOMAIN channels
    /\ channels[req.id].owner # Caller
    /\ Len(channels[req.id].videos) = 1

----------------------------------------------------------------------------
(* Ownership *)

ChannelOps == {"channelUpdate", "channelDelete"}
VideoOps == {"videoUpdate", "videoDelete"}
CommentOps == {"commentUpdate", "commentDelete"}

\* the request names a stored channel, video or comment
Targets(r, chs, vs, cs) ==
    \/ r.op \in ChannelOps /\ r.id \in DOMAIN chs
    \/ r.op \in VideoOps /\ r.id \in DOMAIN vs
    \/ r.op \in CommentOps /\ r.id \in DOMAIN cs

\* channel.owner, video.uploader or comment.userId of the request's target
OwnerRef(r, chs, vs, cs) ==
    IF r.op \in ChannelOps THEN chs[r.id].owner
    ELSE IF r.op \in VideoOps THEN vs[r.id].uploader
    ELSE cs[r.id].userId

\* the body passes the route's validators
ValidBody(r) ==
    /\ r.op = "channelUpdate" => ValidChannelBody(r)
    /\ r.op = "videoUpdate" => ValidVideoBody(r)
    /\ r.op = "commentUpdate" => Len(r.text) \in 1..MaxTextLen

\* C8: an update or delete of a channel, video or comment changes the store
\* only when the caller is the stored owner, uploader or author of its
\* target; a valid request by any other user is answered 403 and changes
\* no document
C8_OwnerOnly ==
    [][(req'.op \in ChannelOps \cup VideoOps \cup CommentOps)
        => /\ store' # store
                => /\ TokenResolves(req'.token)
                   /\ Targets(req', channels, videos, comments)
                   /\ OwnerRef(req', channels, videos, comments) = req'.token.userId
                   /\ res'.status = 200
           /\ ( /\ TokenResolves(req'.token)
                /\ ValidBody(req')
                /\ Targets(req', channels, videos, comments)
                /\ OwnerRef(req', channels, videos, comments) # req'.token.userId )
                => res'.status = 403 /\ store' = store
      ]_vars

\* C8 witness: the uploader of a video was refused the deletion of another
\* user's comment on it
C8_Witness ==
    /\ req.op = "commentDelete" /\ res.status = 403
    /\ TokenResolves(req.token)
    /\ req.id \in DOMAIN comments
    /\ comments[req.id].userId # Caller
    /\ comments[req.id].videoId \in DOMAIN videos
    /\ videos[comments[req.id].videoId].uploader = Caller

----------------------------------------------------------------------------
(* Optional auth and the view counter *)

\* C11: optional auth never answers itself: a view request always reaches
\* the handler (200 or 404, at most one increment), with req.user the
\* token's user when the token is present, verifies and names an existing
\* user, and with no identity otherwise
C11_OptionalAuthNeverRejects ==
    [][(req'.op = "videoView")
        => /\ res'.status = IF req'.id \in DOMAIN videos THEN 200 ELSE 404
           /\ res'.user = IF TokenResolves(req'.token) THEN req'.token.userId ELSE None
           /\ req'.id \in DOMAIN videos
                => videos'[req'.id].views - videos[req'.id].views \in {0, 1}
      ]_vars

\* C11 witness: a view with a verified token of a user who no longer exists
\* was answered 200 by the handler, which saw no identity
C11_Witness ==
    /\ req.op = "videoView" /\ res.status = 200 /\ res.user = None
    /\ req.token.present /\ req.token.signed /\ ~req.token.expired
    /\ req.token.userId \notin DOMAIN users

\* C12: a view of an existing video is answered 200; it leaves the store as
\* it was when no identity is bound and otherwise raises views of that
\* video by exactly 1 and changes nothing else
C12_ViewCountsIdentified ==
    [][(req'.op = "videoView" /\ req'.id \in DOMAIN videos)
        => /\ res'.status = 200
           /\ videos' = [videos EXCEPT ![req'.id].views =
                            IF TokenResolves(req'.token) THEN @ + 1 ELSE @]
           /\ UNCHANGED <<users, channels, comments>>
      ]_vars

\* C12 witness: the last of several authenticated views, by a user other
\* than the one who liked the video, has brought views to 3 with the like
\* still in place
C12_Witness ==
    /\ req.op = "videoView" /\ res.status = 200 /\ TokenResolves(req.token)
    /\ videos[req.id].views = 3
    /\ videos[req.id].likes = 1
    /\ ~Contains(videos[req.id].userLikes, Caller)

\* the step in which slot s gets the answer of its save
Saved(s) == inflight[s].pc = "save" /\ inflight'[s].pc # "save" /\ videos' # videos

\* C13: a save writes the counter computed from the document as it was
\* loaded: a view stores loaded views + 1 and a first like stores loaded
\* likes + 1 while its push lands on the stored list, whatever other
\* requests have saved in between
C13_CountersFromLoadedCopy ==
    [][\A s \in Slots :
        Saved(s)
            => LET sl == inflight[s]
                   cur == videos[sl.id]
                   new == videos'[sl.id]
               IN  IF sl.op = "videoView"
                   THEN new = [cur EXCEPT !.views = sl.doc.views + 1]
                   ELSE /\ new.likes = sl.doc.likes + 1
                        /\ new.userLikes = Append(cur.userLikes, sl.user)
      ]_vars

\* C13 witness: two view requests are both answering the same views value,
\* the stored one, so two increments raised views by 1; and two users are
\* in userLikes while likes is 1
C13_Witness ==
    /\ \A s \in Slots :
          /\ inflight[s].pc = "respond" /\ inflight[s].op = "videoView"
          /\ inflight[s].id = 1
          /\ inflight[s].doc.views = videos[1].views
    /\ Len(videos[1].userLikes) = 2
    /\ videos[1].likes = 1

----------------------------------------------------------------------------
(* Signup and login *)

\* no two users share a username or an email
UniqueUsers ==
    \A u1, u2 \in DOMAIN users :
        u1 # u2 => /\ users[u1].username # users[u2].username
                   /\ users[u1].email # users[u2].email

\* C14: a valid signup whose email or username is that of a stored user is
\* answered 400 and adds no user, with 'Email already registered' when only
\* emails can match and 'Username already taken' when only usernames can;
\* the users collection changes only by a signup answered 201, which issues
\* no token and adds exactly the new user with a hashed password; no two
\* users ever share a username or an email
C14_SignupRejectsDuplicates ==
    /\ []UniqueUsers
    /\ [][(req'.op = "signup")
            => LET em == normalizeEmail(req'.text)
                   sameEmail == {u \in DOMAIN users : users[u].email = em}
                   sameName == {u \in DOMAIN users : users[u].username = req'.name}
                   valid == validateRegistration(req'.name, req'.text, req'.password)
                   added == DOMAIN users' \ DOMAIN users
               IN  /\ (valid /\ sameEmail \cup sameName # {})
                        => /\ res'.status = 400 /\ users' = users
                           /\ res'.message \in {"Email already registered", "Username already taken"}
                           /\ sameEmail = {} => res'.message = "Username already taken"
                           /\ sameName \subseteq sameEmail => res'.message = "Email already registered"
                   /\ (res'.status = 201 \/ users' # users)
                        => /\ res'.status = 201 /\ res'.token = None
                           /\ valid /\ sameEmail \cup sameName = {}
                           /\ Cardinality(added) = 1
                           /\ \A u \in DOMAIN users : users'[u] = users[u]
                           /\ \A u \in added :
                                 /\ users'[u].username = req'.name
                                 /\ users'[u].email = em
                                 /\ users'[u].password # req'.password
         ]_vars

\* C14 witness: a signup with the username of one user and the email of
\* another was answered 'Username already taken'
C14_Witness ==
    /\ req.op = "signup" /\ res.status = 400
    /\ res.message = "Username already taken"
    /\ \E u1, u2 \in DOMAIN users :
          /\ u1 # u2
          /\ users[u1].username = req.name
          /\ users[u2].email = normalizeEmail(req.text)

\* C15: a login with a well-formed email and a non-empty password gets one
\* and the same response, 400 'Invalid email or password' without a token,
\* when no user has the email and when a user has it but the password is
\* wrong; the store is unchanged
C15_LoginDoesNotRevealEmail ==
    [][(req'.op = "login" /\ validateLogin(req'.text, req'.password))
        => LET holders == {u \in DOMAIN users : users[u].email = normalizeEmail(req'.text)}
               wrong == \A u \in holders : users[u].password # Hash(req'.password)
           IN  wrong => /\ res' = AuthResponse(400, "Invalid email or password", None, {})
                        /\ store' = store
      ]_vars

\* C15 witness: a login with a registered email, written in another case,
\* and another user's password was answered 400
C15_Witness ==
    /\ req.op = "login" /\ res.status = 400
    /\ res.message = "Invalid email or password"
    /\ req.text # normalizeEmail(req.text)
    /\ \E u \in DOMAIN users :
          /\ users[u].email = normalizeEmail(req.text)
          /\ users[u].password # Hash(req.password)
    /\ \E u \in DOMAIN users : users[u].password = Hash(req.password)

----------------------------------------------------------------------------
(* Passwords stay in the store *)

\* the user documents serialized into a response
Body(r) == IF "body" \in DOMAIN r THEN r.body ELSE {}

PopulatedReads == {"channelGet", "videoGet", "commentList"}

\* C16: no user document in a response has a password field; the users
\* populated into channel, video and comment responses carry _id, username
\* and avatar only; the document the auth middlewares attach as req.user has
\* no password field
C16_NoPasswordInResponses ==
    /\ \A d \in Body(res) : "password" \notin DOMAIN d
    /\ req.op \in PopulatedReads
          => \A d \in Body(res) : DOMAIN d \subseteq {"_id", "username", "avatar"}
    /\ \A t \in AllTokens :
          /\ auth(t, users).next => "password" \notin DOMAIN auth(t, users).doc
          /\ optionalAuth(t, users).user # None
                => "password" \notin DOMAIN optionalAuth(t, users).doc

\* C16 witness: GET /api/auth/me answered 200 with the document of a user
\* who owns a channel and has a stored password
C16_Witness ==
    /\ req.op = "me" /\ res.status = 200
    /\ req.token.userId \in DOMAIN users
    /\ "password" \in DOMAIN users[req.token.userId]
    /\ users[req.token.userId].channels # <<>>
    /\ \E d \in res.body : d.username = users[req.token.userId].username

----------------------------------------------------------------------------
(* Deletes do not cascade *)

----------------------------------------------------------------------------
(* Comment listing *)

\* C17: a first page of a video's comments is in non-increasing timestamp
\* order; requested right after a comment was created on the video, it
\* starts with that comment unless a comment of the video has a later
\* timestamp
C17_NewCommentFirst ==
    [][(req'.op = "commentList" /\ res'.status = 200 /\ res'.page = 1)
        => LET on == {c \in DOMAIN comments : comments[c].videoId = req'.id}
               items == res'.items
               new == res.created
           IN  /\ \A i, j \in 1..Len(items) :
                     i < j => comments[items[i]].timestamp >= comments[items[j]].timestamp
               /\ ( /\ req.op = "commentCreate" /\ res.status = 201 /\ req.id = req'.id
                    /\ \A d \in on : comments[d].timestamp <= comments[new].timestamp )
                     => Len(items) >= 1 /\ items[1] = new
      ]_vars

----------------------------------------------------------------------------
(* Video listing and editing *)

\* page and limit of a list request as numbers, with the route's defaults
PageOf(r) == IF r.page = None THEN 1 ELSE ToNumber(r.page)
LimitOf(r) == IF r.limit = None THEN 12 ELSE ToNumber(r.limit)

\* the videos a list request asks for
Matching(r, vs) ==
    IF r.name \in {None, "All"} THEN DOMAIN vs
    ELSE {v \in DOMAIN vs : vs[v].category = r.name}

\* one page of the video list is right: the items are positions
\* (p-1)*l .. p*l-1 of an order of the matching videos by uploadDate, newest
\* first, and total and totalPages count the matching videos
C19_PageRight ==
    [][(req'.op = "videoList")
        => LET match == Matching(req', videos)
               p == PageOf(req')
               l == LimitOf(req')
               items == res'.items
           IN  /\ res'.status = 200
               /\ res'.total = Cardinality(match)
               /\ res'.totalPages = Ceil(Cardinality(match), l)
               /\ \E order \in SortedDesc(match, [v \in match |-> videos[v].uploadDate]) :
                     items = Paged(order, (p - 1) * l, l)
      ]_vars

\* two list requests in a row for the same category and limit and for
\* different pages return no video twice
C19_PagesDisjoint ==
    [][( /\ req.op = "videoList" /\ req'.op = "videoList"
         /\ req.name = req'.name /\ LimitOf(req) = LimitOf(req')
         /\ PageOf(req) # PageOf(req') )
        => \A i \in 1..Len(res.items), j \in 1..Len(res'.items) :
              res.items[i] # res'.items[j]
      ]_vars

\* C19: every page of GET /api/videos is right, and with no writes in
\* between the pages contain every matching video exactly once
C19_ListPaginates == C19_PageRight /\ C19_PagesDisjoint

\* C20: a video update answered 200 is made by the uploader and changes the
\* title and the category of that video only: its other fields, the
\* channel's list and every other document are as they were
C20_UpdateFrame ==
    [][(req'.op = "videoUpdate" /\ res'.status = 200)
        => LET id == req'.id
           IN  /\ id \in DOMAIN videos
               /\ videos[id].uploader = req'.token.userId
               /\ DOMAIN videos' = DOMAIN videos
               /\ OthersKept(videos, videos', id)
               /\ \A f \in DOMAIN videos[id] \ {"title", "category"} :
                     videos'[id][f] = videos[id][f]
               /\ videos'[id].title = req'.name
               /\ videos'[id].category = req'.text
               /\ UNCHANGED <<users, channels, comments>>
      ]_vars

\* C20 witness: the uploader has changed title and category of a video that
\* had been viewed and liked
C20_Witness ==
    /\ req.op = "videoUpdate" /\ res.status = 200
    /\ videos[req.id].title = "t2" /\ videos[req.id].category = "Gaming"
    /\ videos[req.id].views >= 1
    /\ videos[req.id].likes >= 1
    /\ Len(videos[req.id].userLikes) >= 1
    /\ Contains(channels[videos[req.id].channelId].videos, req.id)

----------------------------------------------------------------------------
(* Writes in two steps *)

\* ids in a channel's videos list that name no video document
Dangling(chs, vs) ==
    {p \in (DOMAIN chs) \X VideoIds : Contains(chs[p[1]].videos, p[2]) /\ p[2] \notin DOMAIN vs}

\* video documents whose id is in no channel's videos list
Unlisted(chs, vs) ==
    {i \in DOMAIN vs : \A c \in DOMAIN chs : ~Contains(chs[c].videos, i)}

\* slot s stops in this step between the two writes of a video delete
StopsInDelete(s) ==
    /\ inflight[s].op = "videoDelete" /\ inflight[s].pc = "remove"
    /\ inflight'[s].pc = "stopped at remove"

\* C21 as stated: a video delete that stops between its two writes leaves a
\* channel videos list holding the id of a video document that is gone
C21_StopLeavesDangling ==
    [][\A s \in Slots : StopsInDelete(s) => Dangling(channels', videos') # {}]_vars

\* C21 amended: a video delete that stops between its two writes (no other
\* request in flight) leaves the video document stored and its id in no
\* channel's videos list; no list holds the id of a missing video
C21_StopLeavesUnlisted ==
    [][\A s \in Slots : StopsInDelete(s)
          => /\ inflight[s].id \in Unlisted(channels', videos')
             /\ Dangling(channels', videos') = {}
      ]_vars

\* C21 witness: a delete of the listed video has stopped after its pull
C21_Witness ==
    \E s \in Slots :
        /\ inflight[s].op = "videoDelete" /\ inflight[s].pc = "stopped at remove"
        /\ inflight[s].id = 1
        /\ 1 \in DOMAIN videos
        /\ channels[1].videos = <<>>

----------------------------------------------------------------------------
(* Upload *)

\* the strings 'MM:SS' with minutes 2..15 and seconds 0..59, two digits each
Digit == <<"0", "1", "2", "3", "4", "5", "6", "7", "8", "9">>
TwoDigits(n) == Digit[(n \div 10) + 1] \o Digit[(n % 10) + 1]
Synthesized == {TwoDigits(mm) \o ":" \o TwoDigits(ss) : mm \in 2..15, ss \in 0..59}

\* an upload answered 201 whose body held a duration stores that duration
C22_SuppliedKept ==
    [][(req'.op = "videoUpload" /\ res'.status = 201 /\ req'.duration # None)
        => videos'[res'.created].duration = req'.duration]_vars

\* every upload answered 201 stores a synthesized duration
C22_AlwaysSynthesized ==
    [][(req'.op = "videoUpload" /\ res'.status = 201)
        => videos'[res'.created].duration \in Synthesized]_vars

\* C22: the duration stored by an upload is the one of the request when
\* there is one, and otherwise a synthesized 'MM:SS' with minutes 2..15 and
\* seconds 0..59
C22_DurationFromRequest ==
    /\ C22_SuppliedKept
    /\ [][(req'.op = "videoUpload" /\ res'.status = 201 /\ req'.duration = None)
           => videos'[res'.created].duration \in Synthesized]_vars

----------------------------------------------------------------------------
(* Frontend *)

\* no view request is sent while the user is not authenticated
C23_NoneUnauthenticated ==
    [][\A v \in VideoIds : player'.posts[v] > player.posts[v] => isAuthenticated(authCtx')]_vars

\* C23: the VideoPlayer sends at most one view request per session for each
\* video, and a step that sends one leaves the user authenticated
C23_ViewOncePerSession ==
    /\ [](\A v \in VideoIds : player.posts[v] <= 1)
    /\ C23_NoneUnauthenticated

\* C29: in the AuthProvider, user is non-null only while token is non-null
C29_UserOnlyWithToken == authCtx.user # None => authCtx.token # None

----------------------------------------------------------------------------
(* Ownership *)

\* every video whose channel document exists was uploaded by the channel's owner
UploaderIsOwner ==
    \A v \in DOMAIN videos :
        videos[v].channelId \in DOMAIN channels
            => videos[v].uploader = channels[videos[v].channelId].owner

\* no step changes the owner of a channel or the uploader or channel of a video
OwnersKept ==
    /\ \A c \in DOMAIN channels \cap DOMAIN channels' : channels'[c].owner = channels[c].owner
    /\ \A v \in DOMAIN videos \cap DOMAIN videos' :
          /\ videos'[v].uploader = videos[v].uploader
          /\ videos'[v].channelId = videos[v].channelId

\* C24: in every state the uploader of a video is the owner of its channel,
\* if the channel still exists, and no operation changes channel.owner,
\* video.uploader or video.channelId
C24_UploaderIsOwner == []UploaderIsOwner /\ [][OwnersKept]_vars

\* C24 witness: a channel that holds a video has been updated while another
\* user owns a channel too
C24_Witness ==
    /\ req.op = "channelUpdate" /\ res.status = 200
    /\ \E v \in DOMAIN videos : videos[v].channelId = req.id /\ videos[v].title = "t2"
    /\ \E c \in DOMAIN channels : channels[c].owner # channels[req.id].owner

----------------------------------------------------------------------------
(* Order of the checks *)

PutOps == {"channelUpdate", "videoUpdate", "commentUpdate"}

----------------------------------------------------------------------------
(* Counters and lists under atomic requests *)

\* no id occurs twice in the sequence
NoRepeat(s) == \A i, j \in 1..Len(s) : s[i] = s[j] => i = j

\* C26: with like and dislike requests handled one at a time, every video
\* has likes = number of ids in userLikes, dislikes = number of ids in
\* userDislikes, and no id twice in either list
C26_CountersMatchLists ==
    \A v \in DOMAIN videos :
        /\ videos[v].likes = Len(videos[v].userLikes)
        /\ videos[v].dislikes = Len(videos[v].userDislikes)
        /\ NoRepeat(videos[v].userLikes)
        /\ NoRepeat(videos[v].userDislikes)

\* C26 witness: a dislike has just overridden the caller's like while
\* another user's like stays
C26_Witness ==
    /\ req.op = "videoDislike" /\ res.status = 200
    /\ req.id \in DOMAIN videos
    /\ videos[req.id].likes = 1 /\ videos[req.id].dislikes = 1
    /\ videos[req.id].userDislikes = <<req.token.userId>>
    /\ videos[req.id].v >= 3

----------------------------------------------------------------------------
(* References between documents *)

\* every id in a channel's videos list names a stored video of that channel
VideoListsSound ==
    \A c \in DOMAIN channels : \A i \in 1..Len(channels[c].videos) :
        LET id == channels[c].videos[i]
        IN  id \in DOMAIN videos /\ videos[id].channelId = c

\* every id in a user's channels list names a stored channel of that user
ChannelListsSound ==
    \A u \in DOMAIN users : \A i \in 1..Len(users[u].channels) :
        LET id == users[u].channels[i]
        IN  id \in DOMAIN channels /\ channels[id].owner = u

\* C27: with requests handled one at a time and every write a step, in every
\* state, the states between two writes of a request included, the ids in
\* the videos lists and in the channels lists name stored documents that
\* point back
C27_ListsSound == VideoListsSound /\ ChannelListsSound

\* C27 witness: a video delete is between its pull and its delete while its
\* channel still lists another video
C27_Witness ==
    \E s \in Slots :
        /\ inflight[s].op = "videoDelete" /\ inflight[s].pc = "remove"
        /\ inflight[s].id \in DOMAIN videos
        /\ \E c \in DOMAIN channels :
              /\ Len(channels[c].videos) = 1
              /\ c = videos[inflight[s].id].channelId
              /\ Contains(users[channels[c].owner].channels, c)

\* C28: when no request is in flight, no channel's videos list holds the id
\* of a video document that does not exist, however an upload and deletes by
\* the uploader interleave
C28_NoDanglingAfterRace ==
    (\A s \in Slots : inflight[s].pc = "idle") => Dangling(channels, videos) = {}

----------------------------------------------------------------------------
(* Frame of a like or dislike *)

\* C30: a like or dislike request changes nothing but the caller's own
\* membership in the two lists of the video and the video's two counters:
\* every other user's membership, the video's title, channelId, uploader and
\* views, every other video and every other document are as they were
C30_EngageFrame ==
    [][(req'.op \in {"videoLike", "videoDislike"})
        => /\ UNCHANGED <<users, channels, comments>>
           /\ DOMAIN videos' = DOMAIN videos
           /\ OthersKept(videos, videos', req'.id)
           /\ res'.status # 200 => videos' = videos
           /\ res'.status = 200 =>
                LET old == videos[req'.id]
                    new == videos'[req'.id]
                IN  /\ \A w \in UserIds \ {req'.token.userId} :
                          /\ Contains(new.userLikes, w) = Contains(old.userLikes, w)
                          /\ Contains(new.userDislikes, w) = Contains(old.userDislikes, w)
                    /\ \A f \in {"title", "category", "channelId", "uploader", "uploadDate",
                                 "duration", "views"} : new[f] = old[f]
      ]_vars

\* C30 witness: a like has replaced the caller's dislike on a viewed video
\* that another user dislikes
C30_Witness ==
    /\ req.op = "videoLike" /\ res.status = 200
    /\ req.id \in DOMAIN videos
    /\ videos[req.id].views >= 1
    /\ videos[req.id].userLikes = <<req.token.userId>>
    /\ Len(videos[req.id].userDislikes) = 1
    /\ videos[req.id].v >= 3

=============================================================================
